---- MODULE Spec2Model ----
(***************************************************************************)
(* Annotation conversion and dataset partitioning pipeline                 *)
(* (scripts/convert_xview_to_yolo.py, scripts/split_dataset.py), with the  *)
(* other users of the process-wide `random` generator: the sample data of  *)
(* create_sample_data.py and the augmenter of scripts/augment_data.py.     *)
(*                                                                         *)
(* Numbers.  The programs compute with IEEE doubles.  Every ratio and      *)
(* coordinate of the model is a dyadic rational, which a double holds      *)
(* exactly, so that integer arithmetic on numerators reproduces the        *)
(* double arithmetic of the code bit for bit; the quotient of a coordinate *)
(* by an image dimension is rounded to a double where it is printed (Fmt6):*)
(*   - a split ratio is an integer number of 1/RatioDen;                   *)
(*   - a pixel coordinate is an integer number of 1/CoordDen pixel;        *)
(*   - inf, nan and a coordinate of 2^28/CoordDen pixels or more are       *)
(*     written FloatInf, FloatNaN and FloatMax.                            *)
(*                                                                         *)
(* Text.  A string the converter parses is a sequence of characters; a     *)
(* label line is the sequence <<class index, x_center, y_center, width,    *)
(* height>> with the four fields in units of 10^-6, i.e. the six decimals  *)
(* the line prints.                                                        *)
(***************************************************************************)
EXTENDS Integers, Sequences, FiniteSets, TLC

VARIABLES
    dirs,       \* the directories that exist on disk (a set of paths)
    files,      \* path of a directory -> (file name -> file content)
    splitter,   \* arguments of the latest DatasetSplitter(...) call
    phase,      \* "idle" | "failed" | "constructed" | "splitDone"
    rng,        \* state of the process-wide `random` generator
    last,       \* what the latest split() run read, computed and returned
    ref,        \* the same record for the first split() run
    runs,       \* number of split() runs completed
    normIn,     \* arguments <<bbox, img_width, img_height>> of a
                \* _bbox_to_yolo_format call
    normOut,    \* whether the call has returned, and its return value
    store,      \* the annotation file (GeoJSON): its records, in file order
    conv,       \* the xViewToYOLOConverter instance: class_map and stats
    job,        \* the convert() call in progress: position and locals
    sample      \* position of create_sample_data.main():
                \* "idle" | "made" | "annotated" | "done" | "failed"

vars == <<dirs, files, splitter, phase, rng, last, ref, runs, normIn, normOut,
          store, conv, job, sample>>

splitVars == <<dirs, files, splitter, phase, rng, last, ref, runs>>
normVars == <<normIn, normOut>>
convVars == <<store, conv, job>>

-----------------------------------------------------------------------------
(* Bounds of the model.                                                    *)

\* split() runs explored in one behaviour
MaxRuns == 2
\* other uses of the generator start only while it has produced no more than
\* this many words; main() of create_sample_data, run once, is not held back
MaxRngPos == 4
\* convert() calls explored on one converter
MaxConverts == 2

-----------------------------------------------------------------------------
(* Files and directories.                                                  *)

File(stem, ext) == [stem |-> stem, ext |-> ext]

EmptyDir == [f \in {} |-> ""]

\* Path(...).glob('*.<ext>'): the entries of directory d with that suffix;
\* a directory that does not exist yields nothing, without an error.
Glob(fs, d, ext) == {f \in DOMAIN fs[d] : f.ext = ext}

\* the order of the four globs in image_files
ImageExts == <<"jpg", "png", "tif", "tiff">>

Partitions == <<"train", "val", "test">>

\* self.train_img_dir ... self.test_lbl_dir under output_dir = "dataset"
ImgDir(p) == CASE p = "train" -> "dataset/images/train"
               [] p = "val"   -> "dataset/images/val"
               [] p = "test"  -> "dataset/images/test"

LblDir(p) == CASE p = "train" -> "dataset/labels/train"
               [] p = "val"   -> "dataset/labels/val"
               [] p = "test"  -> "dataset/labels/test"

OutDirs == {ImgDir(Partitions[i]) : i \in 1..3} \cup {LblDir(Partitions[i]) : i \in 1..3}

\* input directories a run may be pointed at (--images / --labels);
\* "noimages" and "nolabels" are paths at which nothing exists
ImageDirArgs == {"images", "noimages"}
LabelDirArgs == {"labels1", "labels2", "nolabels"}

\* create_sample_data.main(): sample_data/sample_xview.geojson and the
\* images under sample_data/images
SampleDataDir == "sample_data"
SampleImagesDir == "sample_data/images"
SampleGeojson == File("sample_xview", "geojson")

\* augment_dataset(..., output_dir = "augmented"): output_dir / 'images' and
\* output_dir / 'labels'
AugOutputDir == "augmented"
AugImagesDir == "augmented/images"
AugLabelsDir == "augmented/labels"

AllDirs ==
    ImageDirArgs \cup LabelDirArgs \cup OutDirs
    \cup {SampleDataDir, SampleImagesDir} \cup {AugOutputDir, AugImagesDir, AugLabelsDir}

InitialDirs == {"images", "labels1", "labels2"}

InitialFiles ==
    [d \in AllDirs |->
        CASE d = "images" ->
                (File("a", "jpg") :> "A") @@ (File("b", "jpg") :> "B")
                @@ (File("c", "png") :> "C") @@ (File("d", "bmp") :> "D")
          [] d = "labels1" ->
                (File("a", "txt") :> "v1") @@ (File("b", "txt") :> "v1")
                @@ (File("c", "txt") :> "v1") @@ (File("d", "txt") :> "v1")
          [] d = "labels2" ->
                (File("a", "txt") :> "v2") @@ (File("b", "txt") :> "v1")
          [] OTHER -> EmptyDir]

-----------------------------------------------------------------------------
(* DatasetSplitter.__init__                                                *)

\* ratios are counted in 1/RatioDen (a power of two: exact as doubles)
RatioDen == 128

Ratios(t, v, s) == [train |-> t, val |-> v, test |-> s]

\* ratio triples a caller passes
RatioHalf     == Ratios(64, 32, 32)     \* 0.5 + 0.25 + 0.25 = 1.0
RatioEven     == Ratios(48, 48, 32)     \* 0.375 + 0.375 + 0.25 = 1.0
RatioSlack    == Ratios(64, 32, 33)     \* sum 1.0078125: inside the tolerance
RatioNegative == Ratios(-64, 64, 128)   \* sum 1.0, with a negative train ratio
RatioShort    == Ratios(64, 32, 16)     \* sum 0.875
RatioOver     == Ratios(64, 32, 34)     \* sum 1.015625: just outside the tolerance

Args(i, l, r) == [images_dir |-> i, labels_dir |-> l, ratios |-> r]

\* the DatasetSplitter(...) calls explored
SplitterArgs ==
    { Args("images", "labels1", RatioEven),
      Args("images", "labels2", RatioHalf),
      Args("images", "labels1", RatioSlack),
      Args("images", "labels1", RatioNegative),
      Args("noimages", "labels1", RatioHalf),
      Args("images", "nolabels", RatioHalf),
      Args("images", "labels1", RatioShort),
      Args("images", "labels2", RatioOver) }

Abs(x) == IF x < 0 THEN -x ELSE x

\* total = train_ratio + val_ratio + test_ratio; abs(total - 1.0) > 0.01
RatiosRejected(r) ==
    LET total == r.train + r.val + r.test
    IN  Abs(total - RatioDen) * 100 > RatioDen

\* The constructor: validation, then mkdir(parents=True, exist_ok=True) of the
\* six partition directories.  Returns whether ValueError was raised and the
\* directories that exist afterwards.
SplitterInit_MkdirFirst(r, ds) ==
    [raised |-> RatiosRejected(r), dirs |-> ds \cup OutDirs]

SplitterInit(r, ds) ==
    IF RatiosRejected(r)
    THEN [raised |-> TRUE, dirs |-> ds]
    ELSE [raised |-> FALSE, dirs |-> ds \cup OutDirs]

NoSplitter == Args("", "", Ratios(0, 0, 0))

-----------------------------------------------------------------------------
(* The `random` module: MT19937.                                           *)

Seeds == {1, 42}

\* The ten high bits of the first 32-bit words MT19937 produces after
\* random.seed(s).  getrandbits(k) for k <= 10 returns the top k bits of the
\* next word.
MTStream ==
    (1 :> << 137, 582, 867, 821, 782, 64, 261, 120, 507, 779, 460, 483, 667,
             388, 807, 214, 96, 499, 29, 914, 855, 399, 443, 622, 780, 785,
             2, 712, 456, 272, 738, 821, 234, 605, 967, 104, 923, 325, 31,
             22, 26, 665, 554, 9, 961, 902, 390, 702, 221, 992, 432, 743,
             29, 540, 227, 782, 448, 961, 507, 566, 238, 353, 236, 693, 224,
             779, 470, 975, 296, 948, 22, 426, 857, 938, 569, 944, 657, 102,
             190, 644, 1016, 741, 880, 303, 123, 760, 340, 917, 738, 996,
             728, 512, 958, 990, 432, 519, 849, 932, 686, 194, 310, 290,
             601, 996, 903, 511, 866, 963, 517, 402, 603, 873, 35, 491, 248,
             761, 816, 413, 424, 680, 177, 375, 561, 903, 719, 794, 690,
             755, 383, 88, 449, 679, 520, 110, 797, 167, 533, 860, 402, 379,
             501, 750, 30, 480, 44, 315, 720, 868, 1006, 629, 607, 592, 403,
             662, 174, 172, 514, 232, 1005, 12, 789, 204, 552, 942, 880,
             561, 237, 414, 526, 352, 975, 867, 591, 361, 470, 931, 275,
             675, 561, 623, 980, 746, 5, 392, 802, 877, 840, 977, 907, 960,
             758, 524, 828, 132, 531, 796, 574, 210, 436, 972, 57, 492, 890,
             373, 583, 567, 204, 963, 516, 423, 496, 832, 365, 424, 354, 1,
             551, 553, 638, 805, 627, 339, 469, 614, 28, 823, 235, 650, 181,
             563, 598, 185, 881, 93, 817, 564, 816, 871, 836, 953, 261, 33,
             861, 966, 689, 72, 85, 888, 17, 463, 14, 772, 773, 287, 255,
             275, 112, 816, 639, 189, 352, 297, 71, 171, 163, 261, 540, 974,
             172, 672, 279, 663, 728, 301, 465, 719, 329, 508, 485, 116, 24,
             319, 395, 351, 431, 815, 192, 264, 111, 259, 921, 747, 522,
             1000, 214, 988, 620, 442, 836, 998, 21, 230, 18, 406, 149, 36,
             736, 982, 164, 456, 721, 518, 694, 436, 557, 852, 225, 1000,
             999, 645, 816, 711, 528, 461, 228, 536, 664, 31, 404, 691, 589,
             822, 328, 675, 646, 436, 60, 755, 305, 128, 991, 217, 896, 48,
             313, 72, 879, 78, 317, 939, 961, 305, 761, 162, 426, 578, 258,
             133, 8, 574, 899, 870, 38, 604, 839, 222, 985, 922, 583, 471,
             175, 847, 888, 890, 997, 798, 720, 637, 521, 38, 387, 205, 355,
             101, 210, 587, 690, 918, 443, 605, 198, 504, 106, 960, 681,
             399, 303, 516, 511, 17, 333, 626, 892, 411, 921, 288, 18, 160,
             205, 878, 335, 830, 1010, 576, 801, 138, 347, 439, 218, 272,
             690, 98, 857, 388, 954, 560, 352, 936, 903, 857, 703, 547, 496,
             786, 1009, 545, 240, 66, 742, 41, 86, 136, 173, 170, 932, 551,
             218, 274, 777, 340, 614, 518, 861, 261, 376, 346, 348, 116,
             298, 240, 888, 966, 618, 798, 977, 732, 908, 500, 138, 593,
             564, 788, 106, 328, 40, 416, 74, 389, 886, 1015, 807, 150, 848,
             128, 349, 117, 629, 601, 800, 948, 387, 78, 584, 563, 229, 579,
             83, 975, 273, 373, 912, 302, 577, 547, 947, 117, 468, 918, 283,
             110, 805, 46, 847, 302, 12, 628, 686, 14, 93, 423, 117, 845,
             906, 808, 40, 192, 245, 804, 1011, 600, 431, 165, 118, 461,
             171, 697, 247, 162, 761, 865, 105, 445, 932, 987, 387, 825,
             993, 555, 931, 837, 301, 563, 259, 728, 488, 322, 102, 212,
             667, 325, 40, 27, 10, 805, 1006, 947, 302, 743, 610, 327, 460,
             400, 320, 408, 64, 65, 935, 324, 993, 615, 993, 466, 114, 256,
             220, 803, 632, 796, 1003, 912, 555, 888, 704, 480, 677, 364,
             265, 187, 554, 212, 314, 203, 252, 369, 83, 839, 287, 91, 1006,
             771, 458, 92, 667, 588, 658, 347, 963, 232, 399, 989, 314, 42,
             335, 191, 324, 811, 867, 592, 914, 943, 310, 251, 342, 103,
             557, 626, 592, 826, 610, 94, 250, 225, 20, 827, 249, 411, 74,
             274, 564, 888, 72, 746, 76, 22, 650, 10, 297, 768, 811, 367,
             505, 480, 883, 879, 157, 103, 513, 796, 814, 335, 78, 521, 972,
             681, 177, 183, 794, 153, 1008, 144, 841, 886, 327, 312, 109,
             726, 526, 854, 941, 616, 300, 129, 915, 211, 145, 558, 932,
             739, 32, 798, 323, 840, 924, 638, 823, 688, 928, 566, 860, 966,
             764, 1010, 706, 210, 182, 306, 443, 550, 161, 49, 731, 882,
             683, 253, 258, 796, 65, 698, 986, 457, 827, 440, 562, 256, 554,
             449, 871, 550, 464, 11, 405, 856, 346, 175, 264, 497, 24, 812,
             661, 955, 426, 999, 584, 19, 63, 708, 363, 593, 141, 607, 128,
             141, 265, 1006, 848, 283, 407, 577, 410, 176, 627, 91, 239,
             497, 7, 181, 541, 324, 512, 914, 664, 942, 448, 952, 702, 654,
             748, 231, 244, 320, 506, 703, 490, 979, 230, 729, 422, 345,
             573, 625, 928, 745, 939, 669, 281, 995, 661, 224, 49, 943, 73,
             781, 523, 660, 898, 377, 163, 523, 784, 811, 904, 208, 319,
             305, 709, 306, 869, 565, 380, 169, 718, 718, 754, 475, 608, 87,
             876, 126, 918, 620, 983, 526, 584, 386, 180, 159, 256, 436,
             222, 964, 583, 736, 775, 801, 53, 506, 697, 403, 734, 652, 356,
             393, 527, 865, 168, 557, 747, 1018, 41, 536, 1004, 92, 827,
             261, 643, 103, 273, 754, 934, 85, 982, 998, 142, 992, 794, 631,
             862, 990, 675, 703, 717, 83, 455, 871, 946, 246, 994, 871, 391,
             962, 821, 925, 443, 406, 168, 931, 333, 448, 129, 637, 930,
             499, 982, 217, 122, 441, 615, 546, 418, 931, 120, 676, 302,
             284, 254, 387, 767, 572, 4, 982, 194, 541, 449, 592, 21, 31,
             642, 996, 620, 248, 855, 266, 211, 177, 291, 151, 555, 205,
             279, 318, 599, 775, 256, 852, 699, 457, 810, 881, 828, 875,
             996, 172, 558, 365, 502, 430, 876, 124, 787, 213, 584, 900,
             392, 209, 290, 830, 110, 925, 826, 24, 120, 582, 765, 13, 558,
             303, 988, 690, 779, 741, 996, 664, 139, 76, 512, 382, 586, 824,
             318, 447, 515, 693, 365, 776, 541, 331, 0, 126, 452, 735, 460,
             358, 312, 552, 408, 347, 801, 748, 699, 585, 504, 115, 663,
             939, 386, 391, 208, 570, 3, 1018, 284, 650, 612, 739, 902, 756,
             849, 745, 523, 203, 1010, 945, 472, 615, 854, 529, 418, 959,
             762, 729, 1011, 1011, 312, 719, 174, 460, 634, 684, 543, 202,
             368, 538, 3, 694, 398, 593, 436, 993, 414, 344, 881, 636, 598,
             997, 751, 716, 919, 990, 766, 69, 504, 1011, 763, 253, 655,
             990, 664, 297, 644, 21, 416, 738, 644, 159, 648, 797, 959, 406,
             801, 276, 866, 182, 785, 75, 834, 794, 619, 10, 357, 934, 270,
             817, 725, 421, 894, 701, 557, 310, 155, 473, 852, 265, 496,
             173, 478, 522, 46, 277, 522, 100, 762, 604, 432, 71, 363, 68,
             672, 453, 20, 168, 519, 727, 968, 165, 707, 95, 411, 651, 705,
             282, 619, 311, 213, 540, 212, 242, 907, 341, 275, 70, 76, 715,
             850, 932, 535, 674, 377, 479, 523, 571, 754, 50, 172, 304, 668,
             752, 730, 1020, 834, 569, 276, 364, 624, 757, 237, 401, 574,
             409, 176, 495, 808, 265, 887, 625, 337, 733, 227, 264, 986,
             624, 723, 250, 864, 676, 31, 872, 920, 889, 637, 412, 324, 950,
             442, 955, 779, 254, 804, 275, 194, 74, 640, 749, 169, 891, 996,
             593, 454, 595, 935, 955, 745, 151, 620, 968, 268, 470, 539,
             166, 141, 797, 141, 915, 732, 451, 369, 317, 769, 410, 246,
             118, 735, 211, 735, 697, 312, 69, 108, 233, 406, 329, 504, 950,
             102, 978, 191, 46, 56, 828, 611, 23, 910, 770, 221, 699, 35,
             506, 720, 541, 834, 741, 987, 908, 627, 452, 350, 678, 857,
             281, 120, 627, 709, 176, 97, 227, 409, 238, 506, 460, 386, 768,
             172, 996, 237, 241, 839, 290, 473, 560, 593, 398, 216, 462,
             732, 264, 338, 508, 607, 113, 931, 218, 1018, 80, 47, 15, 816,
             5, 878, 491, 327, 910, 392, 868, 594, 294, 940, 200, 409, 163,
             901, 844, 776, 661, 155, 812, 935, 31, 15, 396, 148, 897, 680,
             555, 58, 578, 388, 260, 133, 81, 473, 667, 860, 310, 927, 14,
             36, 549, 62, 537, 860, 132, 43, 955, 280, 799, 120, 442, 93,
             194, 28, 511, 652, 133, 762, 285, 703, 836, 865, 196, 678, 458,
             399, 337, 646, 274, 992, 266, 657, 650, 248, 251, 61, 602, 957,
             806, 604, 179, 358, 438, 619, 714, 573, 653, 534, 992, 62, 926,
             361, 560, 422, 551, 204, 728, 901, 549, 434, 941, 678, 71, 730,
             273, 761, 625, 738, 995, 770, 74, 257, 181, 999, 98, 154, 60,
             940, 208, 875, 438, 872, 45, 54, 652, 93, 934, 832, 525, 480,
             513, 379, 101, 1008, 320, 41, 129, 544, 33, 453, 680, 131, 916,
             404, 781, 724, 920, 903, 456, 25, 754, 537, 276, 92, 256, 819,
             333, 87, 309, 35, 880, 393, 59, 750, 267, 320, 752, 133, 266,
             813, 389, 826, 119, 876, 694, 311, 96, 435, 861, 251, 514, 570,
             210, 338, 945, 346, 521, 802, 400, 979, 917, 598, 492, 107,
             132, 668, 834, 459, 536, 1011, 572, 736, 864, 854, 595, 718,
             532, 548, 30, 918, 1003, 851, 1014, 298, 761, 160, 204, 379,
             398, 533, 332, 99, 419, 353, 129, 588, 66, 44, 307, 834, 818,
             666, 546, 321, 427, 305, 326, 361, 279, 333, 766, 766, 532,
             513, 8, 538, 124, 152, 324, 936, 744, 333, 803, 335, 586, 70,
             462, 1002, 286, 491, 465, 934, 372, 949, 759, 993, 389, 835,
             910, 947, 80, 944, 592, 820, 57, 137, 49, 536, 503, 589, 873,
             1016, 257, 802, 251, 719, 587, 764, 346, 370, 1014, 964, 816,
             658, 379, 412, 314, 475, 612, 1003, 348, 544, 519, 171, 29,
             151, 256, 703, 226, 576, 136, 928, 115, 189, 784, 420, 961,
             745, 634, 51, 831, 101, 1002, 558, 697, 272, 731, 109, 209,
             267, 68, 647, 584, 539, 656, 80, 875, 74, 813, 871, 222, 658,
             858, 177, 523, 882, 442, 22, 604, 376, 921, 867, 498, 727, 826,
             290, 225, 912, 205, 612, 505, 886, 920, 914, 240, 435, 463,
             691, 375, 557, 934, 967, 193, 817, 493, 743, 74, 833, 860,
             1022, 999, 262, 417, 206, 8, 764, 544, 788, 389, 526, 897, 498,
             78, 413, 630, 903, 522, 815, 592, 598, 435, 41, 360, 871, 1011,
             469, 6, 194, 983, 306, 712, 707, 657, 5, 553, 122, 841, 309,
             524, 908, 1017, 764, 323, 994, 795, 556, 660, 585, 1017, 564,
             289, 538, 421, 555, 962, 838, 949, 976, 530, 418, 617, 645,
             595, 315, 463, 309, 134, 518, 454, 600, 143, 563, 791, 1000,
             997, 166, 258, 651, 9, 1018, 434, 753, 677, 579, 37, 377, 430,
             411, 288, 958, 674, 916, 769, 685, 18, 920, 92, 947, 92, 866,
             4, 392, 275, 475, 278, 815, 800, 381, 651, 767, 872, 492, 787,
             344, 397, 467, 822, 119, 495, 363, 148, 425, 151, 18, 1018,
             176, 833, 266, 376, 878, 130, 603, 805, 294, 972, 1021, 422,
             264, 961, 526, 294, 757, 430, 707, 280, 443, 343, 795, 935,
             497, 220, 732, 849, 503, 972, 994, 411, 733, 435, 93, 65, 132,
             211, 989, 153, 234, 747, 26, 105, 259, 159, 491, 793, 975, 101,
             408, 665, 740, 191, 854, 3, 91, 437, 626, 977, 1019, 52, 562,
             223, 547, 432, 355, 48, 968, 667, 992, 948, 105, 752, 566, 695,
             429, 854, 687, 758, 121, 1019, 271, 700, 285, 183, 491, 824,
             812, 721, 878, 48, 805, 219, 693, 659, 89, 887, 399, 126, 684,
             458, 301, 698, 520, 509, 926, 402, 118, 620, 874, 490, 108,
             152, 395, 628, 927, 719, 206, 171, 533, 263, 426, 761, 909,
             957, 1015, 549, 295, 889, 504, 648, 916, 829, 557, 934, 219,
             807, 777, 638, 345, 881, 497, 105, 8, 775, 1012, 746, 673, 355,
             948, 906, 991, 725, 273, 57, 553, 640, 450, 307, 778, 925, 862,
             103, 234, 520, 281, 276, 723, 252, 421, 151, 133, 262, 199,
             417, 574, 645, 612, 925, 983, 59, 545, 854, 623, 521, 152, 968,
             423, 276, 286, 491, 712, 313, 273, 503, 219, 510, 376, 613,
             481, 247, 346, 180, 620, 777, 185, 756, 901, 594, 710, 461,
             547, 153, 59, 516, 333, 541, 706, 138, 660, 779, 831, 1012,
             912, 218, 322, 637, 505, 491, 337, 121, 130, 908, 143, 715,
             262, 230, 90, 650, 551, 848, 719, 51, 576, 176, 701, 118, 231,
             576, 204, 515, 581, 675, 905, 315, 432, 335, 4, 792, 20, 841,
             312, 841, 630, 225, 86, 760, 229, 286, 697, 640, 1008, 881,
             349, 275, 615, 736, 530, 388, 23, 124, 337, 355, 142, 116, 256,
             920, 788, 146, 697, 587, 42, 355, 79, 94, 742, 1022, 105, 307,
             324, 254, 275, 542, 50, 370, 31, 80, 142, 947, 408, 380, 956,
             737, 653, 707, 247, 96, 695, 336, 280, 8, 527, 909, 329, 981,
             971, 114, 360, 945, 822, 809, 656, 741, 863, 128, 620, 949,
             891, 277, 414, 93, 695, 590, 635, 742, 540, 486, 577, 428, 548,
             956, 403, 308, 919, 224, 647, 309, 562, 136, 55, 614, 520, 112,
             179, 246, 220, 918, 445, 281, 559, 20, 256, 551, 277, 967, 542,
             268, 484, 129, 412, 725, 106, 762, 382, 70, 670, 1000, 557,
             371, 557, 568, 864, 823, 740, 519, 701, 594, 31, 633, 315, 456,
             698, 135, 159, 76, 935, 593, 145, 692, 900, 846, 221, 495, 861,
             820, 868, 785, 343, 373, 909, 299, 163, 159, 869, 814, 390,
             853, 450, 415, 120, 1000, 615, 148, 276, 302, 682, 703, 818,
             654, 618, 975, 8, 550, 975, 9, 941, 834, 658, 135, 388, 764,
             575, 964, 903, 103, 470, 31, 797, 442, 612, 695, 432, 282, 955,
             379, 418, 415, 620, 473, 54, 101, 482, 797, 38, 661, 721, 714,
             0, 831, 43, 851, 113, 601, 142, 543, 520, 781, 364, 564, 277,
             801, 1007, 581, 930, 991, 670, 364, 821, 485, 839, 714, 251,
             949, 827, 636, 245, 108, 575, 974, 366, 892, 162, 119, 795, 41,
             938, 720, 321, 432, 900, 744, 354, 259, 673, 640, 1019, 919,
             790, 937, 57, 631, 445, 424, 385, 367, 300, 772, 835, 349, 451,
             817, 716, 243, 650, 624, 531, 147, 57, 349, 689, 116, 912, 525,
             176, 556, 658, 640, 499, 915, 349, 775, 727, 124, 998, 596, 22,
             491, 918, 214, 392, 646, 853, 975, 178, 406, 733, 233, 102,
             254, 343, 998, 993, 336, 672, 251, 803, 693, 472, 760, 482,
             378, 504, 667, 791, 679, 740, 959, 198, 442, 451, 408, 555,
             123, 585, 499, 949, 272, 859, 128, 153, 12, 385, 424, 111, 818,
             26, 668, 76, 963, 187, 469, 784, 386, 683, 514, 817, 834, 295,
             939, 159, 157, 995, 537, 845, 108, 969, 260, 19, 475, 406, 830,
             649, 721, 753, 811, 934, 233, 550, 712, 400, 1015, 5, 557, 823,
             255, 1005, 433, 929, 162, 678, 183, 350, 678, 244, 77, 793,
             549, 957, 571, 983, 164, 179, 384, 599, 22, 525, 222, 437, 241,
             813, 41, 958, 528, 742, 194, 717, 516, 707, 626, 669, 1022,
             549, 79, 253, 407, 798, 476, 121, 580, 659, 49, 396, 91, 573,
             96, 656, 834, 490, 46, 1001, 530, 244, 796, 12, 21, 978, 879,
             319, 477, 284, 740, 425, 170, 609, 136, 1009, 575, 724, 846,
             325, 789, 547, 651, 459, 1015, 513, 822, 427, 567, 171, 715,
             404, 715, 398, 827, 205, 507, 836, 285, 368, 950, 155, 265,
             580, 286, 865, 179, 799, 738, 636, 85, 748, 369, 344, 950, 146,
             264, 261, 258, 357, 393, 285, 579, 478, 13, 152, 976, 133, 981,
             258, 231, 201, 72, 820, 593, 550, 633, 203, 556, 439, 733, 892,
             245, 591, 142, 567, 471, 400, 728, 200, 84, 640, 957, 79, 156,
             805, 683, 58, 30, 764, 415, 391, 427, 698, 140, 605, 611, 132,
             688, 551, 559, 75, 949, 247, 870, 390, 142, 292, 207, 677, 736,
             1010, 406, 365, 767, 858, 182, 230, 304, 726, 147, 356, 503,
             548, 298, 90, 526, 847, 306, 213, 722, 474, 22, 297, 819, 829,
             637, 606, 105, 629, 381, 772, 454, 261, 633, 59, 53, 848, 800,
             323, 163, 831, 135, 979, 945, 644, 841, 105, 115, 874, 445,
             648, 600, 251, 762, 212, 516, 519, 406, 124, 934, 927, 1009,
             724, 217, 838, 969, 393, 676, 945, 529, 137, 833, 733, 592,
             260, 742, 3, 734, 123, 828, 206, 1009, 781, 576, 387, 678, 493,
             558, 628, 236, 274, 38, 653, 171, 687, 686, 943, 567, 514, 238,
             875, 420, 990, 280, 787, 677, 431, 408, 278, 505, 100, 685,
             850, 853, 132, 191, 572, 16, 464, 771, 45, 500, 219, 403, 842,
             747, 551, 842, 946, 344, 929, 249, 96, 78, 694, 764, 43, 866,
             432, 853, 452, 193, 979, 177, 609, 514, 194, 867, 521, 394,
             534, 369, 201, 238, 368, 674, 898, 600, 1005, 775, 795, 1008,
             66, 349, 927, 53, 469, 45, 854, 625, 181, 912, 151, 874, 928,
             961, 292, 480, 44, 597, 513, 66, 1014, 886, 855, 579, 405, 94,
             1016, 409, 815, 524, 862, 586, 661, 308, 403, 274, 927, 360,
             481, 984, 957, 50, 565, 970, 931, 892, 488, 17, 437, 311, 602,
             766, 324, 814, 152, 610, 603, 569, 871, 1020, 284, 67, 885,
             621, 806, 809, 794, 369, 425, 400, 1022, 532, 809, 24, 589,
             595, 116, 37, 587, 542, 14, 103, 923, 340, 344, 955, 377, 768,
             564, 35, 652, 379, 596, 75, 496, 917, 649, 85, 867, 552, 456,
             342, 512, 941, 829, 557, 3, 944, 164, 931, 332, 369, 219, 149,
             917, 594, 151, 603, 110, 413, 324, 887, 520, 430, 841, 368,
             1019, 349, 872, 266, 623, 377, 38, 728, 64, 785, 645, 252, 839,
             809, 271, 772, 992, 406, 563, 290, 587, 804, 633, 85, 76, 725,
             174, 926, 958, 975, 273, 423, 85, 129, 289, 564, 743, 656, 269,
             240, 215, 101, 283, 739, 491, 48, 755, 524, 308, 806, 894, 830,
             999, 208, 841, 556, 76, 563, 323, 347, 948, 303, 880, 528, 136,
             36, 452, 833, 372, 818, 765, 38, 29, 1013, 323, 427, 767, 167,
             908, 570, 41, 723, 602, 718, 679, 644, 893, 538, 434, 188, 996,
             924, 202, 238, 117, 601, 133, 997, 600, 518, 125, 738, 272,
             469, 201, 800, 56, 369, 985, 467, 342, 949, 987, 629, 740, 363,
             225, 947, 954, 650, 9, 14, 1005, 500, 33, 168, 259, 920, 565,
             40, 9, 235, 783, 908, 86, 536, 836, 177, 35, 968, 540, 205,
             214, 453, 295, 248, 502, 518, 380, 332, 401, 967, 669, 75, 199,
             608, 185, 192, 700, 638, 304, 978, 955, 595, 436, 628, 485,
             372, 23, 499, 21, 952, 107, 674, 640, 591, 680, 634, 975, 866,
             442, 847, 724, 596, 351, 347, 75, 662, 430, 199, 718, 526, 823,
             506, 974, 862, 852, 622, 577, 676, 563, 962, 513, 875, 489,
             614, 696, 756, 589, 926, 877, 786, 460, 618, 482, 169, 852,
             274, 691, 839, 537, 308, 576, 783, 825, 405, 621, 552, 265,
             261, 317, 15, 619, 775, 46, 800, 468, 468, 913, 364, 237, 520,
             454, 214, 716, 487, 947, 343, 712, 1012, 640, 148, 393, 883,
             447, 55, 657, 113, 364, 892, 803, 937, 8, 261, 769, 554, 759,
             55, 313, 387, 15, 332, 346, 316, 603, 899, 805, 843, 891, 50,
             213, 733, 83, 336, 122, 687, 1012, 840, 660, 67, 131, 799, 707,
             301, 982, 419, 622, 348, 238, 27, 985, 659, 717, 706, 187, 773,
             784, 774, 516, 767, 587, 656, 374, 309, 300, 387, 430, 949,
             539, 996, 472, 830, 887, 878, 75, 962, 203, 417, 960, 237, 622,
             43, 632, 246, 644, 229, 249, 730, 404, 388, 215, 636, 155, 737,
             1013, 306, 761, 736, 900, 368, 1, 729, 721, 703, 314, 454, 509,
             174, 691, 149, 31, 1015, 379, 447, 567, 350, 895, 820, 525,
             501, 325, 961, 618, 114, 597, 661, 299, 829, 561, 678, 282,
             439, 11, 862, 318, 770, 88, 654, 503, 117, 513, 225, 891, 620,
             765, 658, 767, 996, 1013, 949, 271, 447, 381, 803, 236, 55,
             104, 611, 527, 526, 523, 166, 132, 299, 944, 49, 1001, 905, 69,
             223, 3, 688, 63, 433, 749, 732, 872, 21, 67, 56, 9, 35, 550,
             347, 340, 803, 19, 626, 9, 572, 216, 480, 204, 272, 302, 595,
             563, 534, 257, 910, 239, 187, 215, 400, 908, 61, 244, 993, 568,
             717, 463, 36, 339, 334, 416, 122, 16, 576, 189, 517, 655, 95,
             779, 189, 223, 230, 180, 311, 927, 825, 100, 60, 813, 321, 899,
             743, 149, 64, 852, 453, 153, 236, 44, 765, 293, 984, 352, 59,
             603, 91, 453, 205, 812, 233, 680, 189, 122, 58, 207, 55, 764,
             745, 118, 89, 975, 805, 831, 760, 225, 960, 292, 731, 258, 539,
             432, 892, 254, 739, 33, 741, 257, 783, 199, 333, 358, 365, 465,
             782, 895, 944, 675, 888, 630, 391, 885, 695, 395, 91, 436, 954,
             250, 851, 850, 501, 898, 351, 932, 182, 619, 664, 116, 245, 74,
             791, 816, 447, 906, 283, 545, 311, 942, 994, 953, 343, 772,
             851, 379, 419, 467, 373, 360, 323, 405, 981, 482, 523, 17, 379,
             130, 309, 172, 309, 580, 129, 892, 561, 728, 744, 153, 170,
             468, 660, 642, 155, 138, 164, 81, 832, 626, 259, 241, 364, 660,
             322, 175, 283, 876, 484, 317, 79, 438, 157, 563, 361, 907, 460,
             938, 110, 865, 159, 700, 323, 70, 701, 191, 491, 547, 35, 1008,
             47, 743, 977, 196, 665, 364, 753, 985, 374, 519, 956, 891, 363,
             878, 871, 800, 515, 642, 829, 681, 383, 350, 669, 123, 189,
             971, 384, 33, 1000, 277, 906, 628, 728, 988, 817, 215, 63, 252,
             857, 868, 311, 334, 576, 412, 250, 368, 790, 50, 237, 964, 297,
             714, 582, 6, 200, 99, 999, 138, 228, 377, 518, 911, 272, 144,
             166, 233, 77, 318, 587, 522, 521, 922, 910, 552, 614, 925, 884,
             554, 808, 442, 883, 892, 449, 594, 524, 486, 187, 524, 884,
             364, 200, 443, 823, 75, 283, 210, 234, 781, 145, 136, 791, 213,
             21, 167, 497, 371, 188, 50, 802, 368, 84, 624, 243, 694, 712,
             888, 216, 89, 451, 659, 671, 201, 616, 350, 168, 588, 707, 858,
             855, 686, 723, 1008, 951, 18, 222, 323, 911, 491, 565, 37, 922,
             53, 873, 375, 511, 572, 357, 138, 499, 69, 523, 326, 680, 759,
             955, 580, 685, 1020, 319, 619, 325, 911, 802, 586, 91, 492,
             346, 425, 871, 73, 268, 64, 1015, 674, 661, 879, 330, 19, 1013,
             184, 930, 335, 231, 320, 268, 854, 837, 258, 890, 313, 974,
             499, 425, 973, 12, 301, 166, 648, 297, 49, 118, 441, 440, 949,
             627, 222, 284, 365, 786, 669, 736, 579, 506, 589, 288, 623,
             262, 691, 176, 330, 146, 360, 96, 406, 365, 534, 762, 580, 713,
             894, 196, 405, 1005, 460, 153, 852, 492, 994, 714, 248, 38,
             747, 655, 253, 80, 758, 72, 39, 531, 519, 482, 583, 495, 716,
             335, 939, 532, 814, 174, 576, 725, 509, 407, 13, 395, 565, 741,
             575, 850, 759, 461, 169, 607, 602, 382, 52, 860, 743, 377, 841,
             361, 448, 243, 704, 660, 678, 559, 310, 871, 90, 452, 776, 892,
             365, 199, 165, 137, 452, 952, 852, 46, 977, 372, 580, 345, 993,
             827, 177, 582, 502, 489, 8, 589, 239, 905, 897, 624, 60, 454,
             670, 167, 521, 213, 1011, 409, 1017, 477, 126, 322, 268, 141,
             1015, 173, 337, 134, 184, 824, 933, 759, 632, 542, 315, 239,
             567, 723, 437, 479, 468, 522, 565, 318, 173, 532, 630, 519,
             978, 316, 606, 862, 806, 211, 289, 689, 158, 698, 6, 832, 1004,
             348, 121, 435, 389, 730, 670, 525, 752, 183, 632, 908, 450,
             460, 834, 546, 452, 372, 855, 211, 55, 87, 739, 109, 99, 551,
             396, 140, 454, 406, 186, 486, 459, 534, 873, 607, 37, 601, 198,
             969, 999, 604, 460, 500, 399, 297, 934, 357, 794, 774, 177,
             862, 612, 279, 184, 898, 794, 28, 569, 62, 817, 687, 66, 998,
             950, 563, 235, 456, 870, 326, 452, 343, 910, 763, 104, 397, 55,
             765, 479, 284, 952, 419, 476, 339, 519, 98, 168, 410, 554, 886,
             437, 904, 909, 628, 758, 876, 489, 517, 152, 327, 149, 358,
             994, 140, 625, 198, 230, 805, 830, 1007, 221, 908, 464, 665,
             898, 159, 105, 715, 105, 435, 53, 464, 155, 1013, 383, 573,
             329, 960, 286, 407, 14, 396, 498, 733, 456, 308, 758, 729, 310,
             659, 595, 396, 320, 869, 771, 296, 178, 102, 501, 184, 456,
             157, 469, 108, 551, 126, 549, 326, 323, 1018, 843, 506, 974,
             693, 572, 957, 650, 349, 741, 595, 327, 575, 606, 818, 473,
             331, 496, 707, 403, 843, 549, 929, 223, 170, 246, 549, 204,
             879, 608, 955, 251, 52, 799, 328, 927, 634, 777, 63, 336, 429,
             965, 30, 352, 368, 370, 614, 609, 902, 676, 893, 418, 214, 805,
             923, 874, 1016, 295, 928, 229, 321, 406, 1019, 715, 393, 685,
             792, 179, 8, 398, 666, 923, 991, 982, 358, 618, 802, 798, 630,
             859, 915, 227, 239, 67, 842, 626, 327, 393, 208, 727, 892, 300,
             98, 444, 4, 827, 359, 95, 827, 417, 974, 156, 114, 546, 809,
             750, 837, 1010, 183, 771, 348, 147, 384, 447, 333, 555, 892,
             653, 967, 717, 535, 996, 283, 964, 960, 213, 198, 162, 168,
             993, 550, 164, 987, 991, 150, 122, 452, 598, 534, 133, 441,
             137, 870, 341, 621, 812, 750, 719, 697, 324, 608, 140, 21, 367,
             797, 178, 231, 240, 709, 508, 606, 500, 35, 944, 667, 91, 136,
             545, 480, 578, 1019, 146, 214, 369, 725, 141, 286, 915, 758,
             356, 1006, 66, 392, 486, 30, 541, 472, 908, 201, 736, 246, 211,
             705, 930, 816, 5, 739, 713, 311, 43, 273, 839, 531, 193, 73,
             816, 108, 832, 822, 789, 877, 112, 887, 409, 339, 107, 456,
             735, 952, 1017, 590, 535, 727, 667, 494, 683, 287, 146, 441,
             380, 663, 357, 954, 768, 392, 421, 446, 376, 988, 562, 945,
             210, 200, 66, 148, 243, 245, 21, 246, 685, 403, 467, 803, 631,
             451, 581, 97, 55, 176, 834, 840, 838, 539, 7, 45, 440, 874,
             804, 285, 425, 135, 880, 241, 711, 790, 676, 383, 927, 424,
             797, 350, 599, 765, 48, 518, 465, 132, 705, 941, 535, 372, 598,
             61, 357, 120, 861, 882, 251, 650, 654, 127, 447, 973, 152, 824,
             19, 374, 133, 154, 295, 25, 483, 653, 27, 494, 68, 768, 815,
             1003, 1003, 603, 441, 94, 481, 557, 617, 513, 99, 131, 551,
             868, 690, 723, 966, 403, 658, 616, 557, 974, 419, 247, 933,
             1021, 535, 388, 489, 852, 751, 324, 448, 119, 68, 215, 606,
             625, 886, 714, 378, 106, 98, 363, 108, 904, 928, 200, 113, 706,
             669, 605, 89, 3, 524, 442, 933, 987, 240, 93, 314, 499, 626,
             63, 587, 439, 573, 305, 401, 643, 41, 686, 609, 29, 283, 930,
             635, 489, 448, 224, 275, 931, 1019, 890, 329, 793, 994, 971,
             489, 452, 546, 56, 275, 526, 177, 763, 723, 448, 466, 302, 599,
             604, 186, 328, 522, 996, 674, 407, 777, 990, 682, 709, 423,
             1012, 701, 573, 611, 407, 488, 770, 645, 225, 313, 17, 64,
             1016, 151, 505, 996, 841, 914, 118, 846, 368, 265, 865, 858,
             316, 808, 1007, 554, 900, 310, 141, 109, 513, 1021, 141, 1022,
             466, 871, 38, 456, 480, 747, 583, 932, 333, 554, 380, 128, 728,
             999, 14, 550, 206, 788, 275, 637, 829, 66, 803, 473, 290, 12,
             662 >>)
    @@
    (42 :> << 654, 114, 25, 759, 281, 250, 228, 142, 754, 104, 692, 758,
              913, 558, 89, 604, 432, 32, 30, 95, 223, 238, 517, 616, 27,
              574, 203, 733, 665, 718, 558, 429, 225, 459, 603, 284, 828,
              890, 6, 777, 825, 163, 714, 432, 348, 284, 159, 220, 980, 781,
              344, 104, 94, 389, 99, 367, 867, 352, 618, 270, 826, 44, 747,
              470, 549, 127, 996, 944, 387, 80, 565, 300, 849, 643, 633,
              906, 882, 370, 591, 196, 721, 71, 46, 677, 233, 791, 296,
              1008, 81, 875, 238, 887, 103, 389, 284, 464, 650, 854, 373,
              166, 379, 363, 214, 686, 273, 718, 959, 699, 663, 73, 623,
              650, 175, 546, 746, 250, 167, 473, 388, 276, 1013, 947, 655,
              704, 570, 224, 701, 332, 863, 786, 794, 57, 234, 841, 32, 824,
              323, 410, 274, 67, 216, 935, 965, 580, 897, 735, 322, 217,
              671, 511, 405, 905, 936, 658, 469, 146, 271, 142, 252, 762,
              574, 551, 269, 764, 598, 438, 919, 597, 408, 370, 224, 1021,
              1021, 141, 521, 505, 93, 773, 48, 881, 112, 156, 642, 163,
              811, 696, 432, 610, 65, 394, 390, 610, 1020, 479, 541, 257,
              994, 566, 881, 965, 11, 696, 738, 117, 698, 906, 549, 768,
              273, 787, 656, 348, 114, 300, 445, 161, 464, 3, 976, 739, 896,
              736, 269, 995, 512, 780, 182, 519, 934, 108, 891, 640, 305,
              861, 654, 519, 623, 203, 156, 382, 780, 165, 552, 976, 797,
              944, 543, 940, 0, 613, 331, 500, 19, 114, 951, 371, 899, 1008,
              851, 826, 314, 245, 59, 246, 899, 580, 969, 80, 87, 749, 497,
              835, 70, 1001, 778, 545, 784, 128, 131, 675, 486, 969, 562,
              169, 271, 540, 893, 621, 433, 987, 216, 951, 552, 773, 747,
              706, 205, 730, 319, 408, 1019, 687, 665, 382, 448, 921, 529,
              462, 123, 253, 230, 65, 346, 21, 602, 567, 235, 602, 225, 7,
              72, 724, 646, 60, 234, 69, 927, 32, 880, 338, 72, 526, 243,
              285, 685, 497, 219, 552, 135, 740, 957, 903, 584, 590, 484,
              248, 803, 484, 826, 416, 194, 96, 99, 674, 441, 362, 433, 420,
              478, 884, 746, 55, 689, 669, 1007, 661, 100, 62, 412, 745,
              347, 819, 882, 111, 254, 196, 194, 549, 459, 143, 432, 187,
              285, 473, 255, 895, 945, 77, 453, 827, 882, 876, 563, 100, 51,
              667, 1023, 553, 856, 15, 992, 95, 948, 771, 869, 242, 170,
              416, 497, 492, 218, 885, 410, 924, 60, 168, 388, 2, 1008, 399,
              271, 948, 802, 803, 465, 292, 433, 713, 980, 748, 1019, 802,
              569, 677, 735, 498, 158, 194, 303, 222, 991, 59, 593, 753,
              555, 62, 765, 321, 58, 51, 598, 488, 514, 941, 873, 543, 161,
              58, 983, 520, 82, 871, 190, 70, 609, 69, 691, 882, 240, 413,
              122, 964, 911, 583, 252, 592, 608, 40, 634, 83, 429, 673, 597,
              578, 535, 323, 957, 267, 209, 685, 733, 321, 244, 271, 405,
              134, 687, 660, 307, 468, 323, 951, 769, 958, 74, 9, 469, 636,
              1022, 576, 1020, 102, 75, 550, 218, 518, 271, 135, 955, 357,
              902, 70, 900, 250, 378, 291, 161, 448, 853, 556, 720, 309,
              626, 1007, 1010, 826, 669, 541, 8, 683, 836, 567, 306, 954,
              679, 106, 961, 899, 137, 270, 118, 911, 109, 760, 566, 159,
              278, 288, 619, 215, 734, 351, 208, 703, 649, 873, 270, 517,
              500, 257, 927, 929, 866, 52, 94, 649, 433, 849, 283, 45, 3,
              341, 789, 133, 652, 1003, 268, 165, 759, 452, 564, 722, 437,
              574, 9, 114, 77, 967, 904, 707, 925, 152, 558, 36, 854, 378,
              596, 565, 151, 440, 130, 42, 315, 373, 920, 955, 815, 995,
              881, 40, 920, 366, 215, 698, 255, 682, 105, 362, 798, 573,
              905, 895, 416, 997, 635, 767, 158, 947, 952, 242, 885, 166,
              999, 819, 830, 181, 902, 422, 25, 183, 754, 946, 340, 801,
              953, 421, 821, 685, 884, 752, 830, 254, 273, 163, 806, 718,
              110, 391, 893, 39, 879, 481, 227, 204, 836, 940, 471, 358,
              312, 840, 814, 892, 233, 228, 24, 675, 197, 408, 336, 285,
              885, 71, 990, 791, 285, 359, 656, 521, 409, 695, 1004, 863,
              549, 339, 961, 28, 118, 898, 993, 267, 182, 594, 985, 1007,
              271, 39, 111, 610, 444, 353, 746, 805, 321, 446, 620, 1007,
              523, 118, 394, 921, 590, 194, 260, 45, 725, 446, 1, 532, 947,
              825, 551, 703, 736, 962, 759, 754, 686, 201, 372, 441, 71,
              971, 680, 942, 338, 638, 321, 679, 868, 127, 737, 921, 307,
              519, 316, 682, 418, 334, 412, 713, 302, 567, 130, 196, 430,
              680, 962, 388, 693, 766, 924, 178, 630, 582, 308, 415, 561,
              853, 0, 311, 293, 215, 440, 804, 593, 621, 670, 329, 476, 452,
              452, 691, 218, 523, 484, 812, 922, 982, 815, 753, 173, 674,
              86, 290, 527, 679, 648, 634, 343, 95, 838, 974, 769, 240, 688,
              317, 230, 825, 203, 150, 25, 47, 250, 1007, 486, 625, 870,
              786, 74, 466, 424, 907, 644, 589, 199, 735, 713, 393, 506,
              409, 249, 151, 671, 704, 5, 914, 768, 881, 788, 906, 109, 797,
              435, 224, 180, 823, 980, 712, 530, 475, 51, 570, 255, 939,
              868, 124, 467, 136, 820, 475, 683, 543, 1011, 572, 609, 324,
              972, 773, 912, 453, 627, 834, 736, 913, 516, 436, 850, 928,
              561, 456, 918, 162, 761, 882, 486, 460, 265, 769, 253, 860,
              652, 283, 784, 796, 533, 496, 641, 244, 281, 450, 79, 730,
              292, 240, 278, 343, 327, 914, 553, 82, 141, 154, 236, 392,
              710, 156, 723, 219, 65, 424, 417, 338, 555, 477, 425, 63, 211,
              852, 430, 398, 926, 788, 598, 968, 712, 20, 877, 901, 783,
              589, 389, 488, 6, 965, 360, 305, 771, 399, 873, 913, 976, 855,
              429, 551, 765, 752, 559, 819, 617, 919, 225, 499, 224, 279,
              446, 497, 29, 398, 344, 684, 695, 817, 414, 741, 169, 860,
              478, 941, 130, 1004, 637, 546, 27, 928, 403, 606, 577, 678,
              27, 85, 658, 438, 138, 887, 472, 186, 51, 266, 388, 335, 216,
              465, 334, 345, 779, 900, 388, 284, 770, 974, 851, 431, 258,
              854, 83, 481, 19, 767, 552, 53, 1023, 974, 358, 229, 665, 70,
              799, 980, 667, 41, 772, 31, 972, 253, 204, 859, 20, 636, 156,
              244, 129, 484, 685, 117, 577, 970, 223, 476, 716, 262, 785,
              377, 171, 620, 621, 986, 765, 735, 117, 796, 838, 167, 987,
              318, 110, 592, 26, 951, 319, 589, 693, 929, 981, 384, 406,
              964, 732, 203, 77, 606, 707, 850, 642, 248, 104, 713, 791,
              308, 870, 700, 614, 824, 123, 815, 1007, 579, 801, 42, 355,
              545, 438, 677, 379, 70, 518, 663, 349, 12, 869, 430, 842, 501,
              108, 443, 983, 370, 650, 912, 848, 470, 724, 156, 445, 180,
              751, 534, 988, 666, 276, 630, 827, 941, 551, 793, 495, 476,
              446, 845, 748, 606, 274, 330, 872, 251, 850, 957, 88, 285,
              902, 461, 249, 768, 475, 583, 624, 684, 388, 344, 29, 506,
              871, 332, 186, 499, 217, 363, 816, 264, 348, 286, 901, 610,
              718, 901, 282, 569, 10, 529, 970, 195, 87, 247, 737, 416, 500,
              568, 776, 246, 707, 487, 661, 728, 502, 458, 811, 17, 95, 301,
              226, 414, 708, 249, 313, 679, 595, 377, 484, 566, 543, 352,
              435, 1020, 763, 563, 338, 360, 719, 464, 277, 313, 257, 236,
              123, 738, 197, 323, 122, 760, 548, 973, 780, 706, 189, 196,
              221, 756, 495, 283, 741, 603, 1000, 778, 537, 611, 289, 1004,
              102, 852, 198, 303, 232, 369, 183, 309, 14, 725, 546, 129,
              280, 46, 997, 55, 566, 299, 714, 966, 129, 653, 889, 770, 502,
              105, 893, 12, 587, 291, 480, 490, 451, 348, 188, 988, 52, 258,
              963, 882, 489, 116, 841, 66, 410, 503, 75, 590, 644, 702, 54,
              155, 152, 830, 576, 971, 311, 87, 1017, 254, 121, 571, 782,
              426, 620, 610, 809, 633, 231, 794, 535, 389, 461, 930, 453,
              304, 880, 602, 1013, 439, 312, 582, 635, 61, 624, 983, 757,
              101, 970, 781, 212, 640, 216, 270, 676, 83, 160, 245, 177,
              565, 76, 160, 2, 418, 461, 705, 608, 481, 298, 33, 237, 295,
              723, 289, 719, 880, 464, 72, 703, 239, 946, 270, 806, 810,
              640, 603, 677, 823, 956, 202, 435, 117, 557, 230, 663, 152,
              930, 272, 846, 145, 73, 61, 169, 811, 314, 609, 766, 844, 582,
              943, 295, 449, 127, 479, 705, 311, 716, 412, 965, 278, 512,
              552, 505, 448, 82, 612, 40, 910, 442, 752, 330, 618, 256, 26,
              93, 234, 984, 690, 856, 881, 589, 601, 973, 21, 1023, 783,
              688, 841, 275, 590, 41, 781, 774, 179, 481, 531, 667, 452,
              938, 284, 185, 1020, 599, 446, 650, 833, 503, 992, 93, 481,
              356, 418, 341, 328, 686, 107, 878, 164, 337, 421, 710, 507,
              295, 678, 967, 410, 833, 778, 563, 37, 465, 90, 322, 258, 331,
              118, 993, 791, 413, 885, 526, 844, 1011, 1, 673, 890, 555,
              473, 423, 55, 192, 530, 370, 637, 774, 510, 640, 452, 778, 52,
              208, 273, 562, 134, 949, 294, 448, 901, 715, 496, 124, 29,
              996, 645, 623, 818, 245, 726, 162, 318, 564, 14, 565, 417, 95,
              230, 1016, 861, 934, 116, 472, 969, 120, 663, 852, 157, 510,
              955, 733, 298, 521, 722, 279, 425, 854, 494, 1003, 483, 249,
              467, 564, 148, 392, 195, 943, 613, 520, 764, 900, 139, 884,
              71, 282, 791, 808, 874, 424, 348, 956, 806, 519, 273, 840, 2,
              289, 743, 305, 857, 601, 593, 1022, 675, 501, 886, 152, 457,
              551, 495, 353, 340, 565, 781, 556, 386, 466, 955, 329, 890,
              193, 1004, 714, 244, 585, 392, 239, 876, 794, 420, 44, 325,
              762, 484, 722, 935, 830, 390, 395, 1012, 679, 811, 840, 667,
              1004, 155, 507, 987, 37, 129, 514, 988, 604, 339, 890, 102,
              895, 865, 450, 102, 538, 932, 467, 15, 739, 147, 419, 891,
              670, 993, 158, 76, 480, 800, 992, 271, 346, 638, 709, 407,
              665, 82, 872, 336, 872, 690, 879, 546, 389, 977, 324, 641,
              735, 908, 777, 499, 893, 554, 36, 632, 70, 240, 646, 700, 943,
              294, 1021, 232, 764, 92, 444, 1001, 100, 778, 648, 720, 893,
              102, 454, 170, 710, 306, 925, 29, 47, 332, 815, 57, 300, 367,
              383, 441, 149, 250, 543, 421, 579, 698, 811, 184, 174, 179,
              80, 624, 891, 391, 634, 699, 246, 509, 934, 597, 146, 237,
              472, 653, 260, 470, 261, 682, 9, 920, 823, 476, 922, 294, 693,
              559, 161, 75, 452, 967, 353, 1011, 601, 306, 654, 985, 434,
              706, 256, 467, 865, 309, 203, 1023, 393, 873, 494, 109, 242,
              390, 585, 367, 588, 302, 1016, 716, 302, 22, 1001, 849, 674,
              405, 281, 8, 579, 885, 702, 796, 762, 996, 50, 932, 620, 763,
              508, 852, 925, 924, 293, 794, 818, 235, 621, 821, 360, 224,
              651, 194, 635, 256, 694, 773, 738, 785, 675, 697, 858, 140,
              643, 99, 925, 642, 661, 40, 316, 807, 451, 34, 593, 373, 749,
              134, 92, 931, 302, 334, 765, 425, 179, 205, 135, 805, 552,
              897, 994, 374, 543, 513, 935, 279, 850, 168, 263, 935, 844,
              966, 493, 990, 825, 302, 764, 891, 346, 823, 117, 479, 986,
              77, 144, 772, 989, 231, 880, 692, 741, 690, 1003, 406, 990,
              866, 823, 570, 374, 92, 809, 404, 14, 270, 549, 126, 465, 377,
              688, 766, 688, 268, 598, 390, 842, 653, 962, 380, 110, 691,
              239, 482, 25, 634, 905, 965, 574, 335, 937, 624, 226, 663, 64,
              650, 843, 475, 931, 717, 309, 664, 418, 119, 143, 46, 968, 38,
              311, 1019, 504, 118, 99, 240, 908, 550, 138, 397, 464, 379,
              686, 972, 760, 713, 968, 553, 429, 601, 760, 744, 158, 906,
              424, 670, 101, 853, 501, 630, 417, 961, 974, 286, 33, 706,
              379, 222, 454, 455, 973, 241, 875, 371, 101, 1004, 702, 376,
              557, 923, 1001, 660, 367, 62, 407, 282, 194, 991, 125, 971,
              868, 843, 465, 93, 678, 217, 657, 654, 611, 994, 21, 51, 805,
              341, 249, 1012, 128, 805, 578, 210, 70, 849, 783, 567, 212,
              600, 221, 832, 890, 238, 336, 792, 151, 807, 922, 610, 2, 283,
              879, 1007, 148, 1011, 133, 553, 256, 817, 178, 112, 676, 887,
              26, 134, 15, 366, 808, 807, 243, 602, 331, 16, 178, 271, 53,
              129, 759, 431, 538, 116, 763, 65, 487, 459, 796, 370, 525,
              607, 111, 462, 515, 226, 968, 629, 44, 744, 802, 930, 887,
              674, 533, 308, 469, 658, 987, 31, 62, 1022, 490, 867, 411,
              436, 702, 110, 502, 729, 931, 454, 75, 920, 82, 329, 622, 151,
              67, 129, 281, 639, 648, 599, 561, 729, 332, 390, 1018, 611,
              543, 301, 464, 517, 619, 440, 101, 812, 718, 117, 873, 670,
              666, 898, 787, 564, 738, 886, 220, 440, 462, 909, 233, 423,
              347, 847, 464, 408, 425, 747, 97, 320, 437, 320, 681, 261,
              383, 976, 156, 703, 945, 485, 68, 93, 851, 87, 95, 442, 98,
              762, 756, 381, 831, 133, 569, 61, 600, 979, 575, 575, 337,
              686, 125, 420, 362, 894, 681, 963, 768, 433, 888, 937, 738,
              52, 991, 294, 614, 319, 360, 106, 591, 519, 217, 158, 672,
              493, 229, 867, 110, 358, 865, 569, 376, 117, 780, 285, 587,
              231, 826, 439, 865, 574, 997, 785, 838, 636, 628, 691, 658,
              570, 26, 623, 951, 673, 849, 710, 273, 29, 184, 279, 719, 780,
              316, 943, 347, 359, 6, 185, 890, 146, 579, 673, 410, 71, 145,
              758, 648, 995, 31, 93, 764, 543, 220, 385, 429, 464, 349, 161,
              378, 319, 738, 332, 795, 964, 581, 610, 86, 904, 53, 159, 161,
              772, 632, 50, 690, 83, 278, 453, 677, 434, 497, 621, 452, 424,
              279, 220, 773, 524, 116, 353, 440, 113, 290, 694, 694, 607,
              498, 539, 683, 315, 46, 225, 404, 1008, 613, 56, 7, 209, 308,
              968, 216, 785, 140, 782, 261, 296, 335, 122, 7, 509, 764, 440,
              179, 132, 389, 545, 720, 235, 512, 572, 853, 684, 825, 362,
              73, 406, 882, 759, 43, 446, 19, 470, 943, 79, 882, 320, 589,
              439, 587, 414, 726, 655, 427, 296, 117, 414, 21, 989, 332,
              175, 820, 970, 632, 471, 851, 706, 941, 370, 90, 447, 864,
              108, 249, 446, 603, 410, 536, 80, 405, 891, 317, 763, 347,
              226, 341, 797, 172, 78, 522, 648, 116, 543, 522, 198, 927,
              794, 357, 359, 744, 981, 838, 660, 834, 151, 241, 105, 149,
              262, 202, 177, 616, 156, 778, 777, 671, 77, 181, 974, 791,
              643, 505, 475, 772, 577, 778, 593, 459, 697, 946, 903, 578,
              658, 650, 1010, 639, 330, 884, 994, 642, 323, 154, 450, 69,
              480, 452, 646, 310, 815, 281, 605, 57, 360, 519, 75, 317, 472,
              462, 38, 58, 377, 851, 293, 78, 660, 884, 1000, 875, 92, 629,
              608, 519, 393, 473, 594, 567, 977, 810, 756, 917, 42, 460,
              930, 829, 585, 667, 192, 329, 619, 487, 513, 154, 980, 63,
              461, 105, 830, 920, 857, 351, 1005, 731, 86, 516, 661, 176,
              40, 253, 724, 448, 1014, 449, 536, 535, 624, 162, 372, 381,
              939, 289, 396, 418, 793, 346, 695, 612, 53, 808, 646, 662,
              342, 67, 337, 96, 571, 694, 395, 290, 258, 741, 872, 672, 987,
              928, 617, 894, 153, 341, 83, 596, 679, 144, 938, 358, 317,
              990, 671, 715, 678, 401, 132, 609, 725, 960, 86, 317, 572,
              385, 658, 810, 336, 832, 130, 686, 719, 848, 969, 756, 1021,
              701, 934, 539, 95, 661, 686, 433, 520, 370, 18, 371, 316, 184,
              973, 219, 349, 970, 784, 497, 196, 231, 1023, 140, 158, 79,
              302, 864, 807, 103, 519, 789, 552, 855, 756, 904, 539, 38,
              677, 344, 897, 784, 632, 134, 611, 385, 157, 166, 185, 851,
              709, 789, 639, 828, 924, 169, 738, 448, 44, 420, 373, 692,
              736, 243, 992, 454, 625, 291, 770, 766, 802, 459, 239, 546,
              244, 316, 988, 828, 803, 480, 925, 855, 198, 376, 694, 969,
              584, 1008, 451, 472, 787, 288, 796, 391, 514, 540, 428, 989,
              165, 836, 204, 820, 619, 141, 893, 256, 53, 656, 492, 895,
              380, 567, 956, 105, 728, 866, 528, 871, 127, 291, 85, 781,
              164, 279, 460, 927, 525, 150, 850, 447, 93, 969, 932, 227,
              836, 461, 905, 357, 952, 27, 424, 54, 405, 514, 382, 241, 395,
              1018, 83, 383, 229, 28, 326, 953, 101, 859, 731, 665, 343,
              810, 149, 140, 39, 293, 939, 849, 483, 712, 851, 142, 777,
              722, 480, 459, 630, 5, 927, 81, 19, 262, 220, 855, 153, 561,
              962, 744, 623, 540, 433, 113, 794, 295, 243, 308, 124, 48,
              244, 429, 654, 812, 637, 468, 64, 113, 856, 926, 511, 611,
              548, 16, 647, 527, 588, 247, 735, 147, 298, 439, 1, 629, 361,
              246, 584, 426, 191, 680, 684, 87, 536, 998, 369, 69, 976, 538,
              557, 519, 805, 1012, 519, 567, 20, 399, 894, 481, 44, 650,
              396, 1004, 382, 259, 765, 16, 365, 807, 69, 353, 246, 750,
              672, 643, 106, 790, 595, 752, 774, 340, 136, 45, 360, 559,
              346, 833, 658, 179, 850, 797, 701, 475, 1004, 712, 490, 646,
              186, 830, 138, 64, 733, 794, 966, 468, 37, 300, 206, 44, 810,
              204, 907, 42, 323, 955, 317, 527, 407, 1012, 834, 556, 484,
              259, 37, 771, 662, 195, 292, 365, 882, 799, 48, 886, 671, 339,
              279, 127, 818, 376, 447, 910, 409, 761, 450, 916, 979, 395,
              347, 997, 191, 508, 708, 509, 376, 946, 816, 531, 273, 820,
              84, 744, 434, 80, 440, 616, 1018, 842, 184, 558, 300, 328,
              105, 81, 335, 676, 302, 313, 456, 617, 734, 436, 170, 706,
              454, 359, 457, 43, 744, 890, 933, 361, 629, 1022, 445, 281,
              654, 1003, 810, 970, 58, 76, 687, 652, 415, 372, 525, 820,
              767, 695, 163, 975, 31, 146, 869, 622, 694, 800, 448, 35, 129,
              68, 241, 797, 660, 375, 370, 392, 972, 580, 33, 619, 157, 695,
              460, 971, 379, 380, 454, 781, 78, 587, 140, 542, 375, 407,
              321, 665, 285, 255, 983, 116, 26, 753, 190, 511, 530, 396,
              935, 575, 120, 268, 793, 266, 720, 456, 219, 1020, 626, 292,
              710, 938, 1022, 502, 204, 125, 138, 873, 75, 462, 176, 920,
              730, 455, 1021, 89, 829, 698, 990, 865, 1010, 327, 683, 355,
              726, 66, 563, 555, 297, 912, 307, 871, 161, 728, 726, 949,
              717, 653, 178, 812, 370, 520, 229, 124, 1008, 205, 811, 142,
              242, 809, 505, 26, 369, 567, 586, 377, 478, 822, 1006, 564,
              132, 626, 905, 88, 67, 316, 407, 1023, 734, 736, 490, 538,
              420, 787, 419, 843, 588, 75, 128, 995, 324, 657, 75, 460, 477,
              696, 529, 352, 131, 899, 848, 798, 564, 655, 601, 186, 786,
              989, 132, 443, 514, 932, 889, 56, 851, 127, 530, 156, 311,
              168, 165, 330, 957, 726, 230, 354, 970, 963, 531, 916, 290,
              866, 80, 256, 201, 650, 979, 564, 281, 128, 640, 310, 629,
              546, 95, 514, 656, 172, 606, 964, 594, 157, 175, 674, 639,
              737, 923, 619, 345, 862, 946, 577, 42, 845, 884, 29, 83, 46,
              971, 656, 789, 590, 271, 666, 215, 785, 585, 426, 632, 654,
              31, 509, 910, 642, 558, 296, 657, 979, 309, 494, 250, 824,
              826, 701, 415, 304, 464, 74, 705, 61, 161, 450, 425, 495, 475,
              208, 348, 621, 147, 320, 882, 735, 326, 751, 1011, 881, 353,
              998, 408, 133, 778, 379, 527, 575, 108, 326, 247, 477, 125,
              273, 460, 253, 144, 99, 51, 297, 968, 393, 884, 630, 428, 254,
              985, 886, 923, 163, 833, 335, 956, 591, 738, 320, 194, 781,
              163, 510, 1019, 527, 478, 510, 900, 315, 509, 23, 92, 967,
              402, 517, 468, 989, 246, 220, 597, 361, 49, 51, 288, 506, 611,
              903, 863, 669, 688, 481, 292, 549, 8, 867, 110, 441, 137, 903,
              270, 744, 374, 782, 412, 374, 46, 410, 52, 583, 575, 199, 371,
              566, 295, 75, 395, 516, 461, 782, 563, 286, 845, 1012, 638,
              696, 625, 121, 131, 998, 99, 403, 382, 813, 1010, 347, 571,
              961, 374, 773, 147, 203, 616, 521, 411, 512, 41, 46, 39, 140,
              730, 341, 823, 485, 531, 467, 152, 620, 914, 527, 143, 335,
              953, 627, 326, 166, 402, 1014, 631, 757, 862, 306, 607, 344,
              519, 848, 521, 545, 501, 725, 576, 306, 486, 835, 17, 377,
              339, 689, 112, 1003, 426, 597, 315, 815, 920, 742, 893, 704,
              644, 27, 611, 485, 271, 990, 671, 801, 995, 794, 592, 591,
              233, 738, 52, 597, 491, 174, 536, 644, 738, 634, 793, 861,
              389, 151, 841, 697, 248, 32, 586, 970, 717, 112, 195, 19, 451,
              321, 428, 155, 422, 707, 208, 420, 513, 793, 626, 942, 482,
              893, 868, 753, 744, 63, 722, 141, 531, 212, 574, 332, 1022,
              678, 489, 538, 385, 321, 979, 177, 470, 934, 545, 350, 559,
              362, 692, 790, 888, 738, 697, 658, 822, 709, 270, 624, 495,
              196, 980, 252, 285, 571, 305, 230, 964, 996, 1005, 304, 789,
              295, 721, 212, 706, 721, 500, 324, 491, 357, 573, 956, 956,
              814, 738, 280, 294, 124, 587, 692, 556, 388, 917, 1003, 404,
              838, 353, 977, 791, 823, 149, 297, 43, 294, 978, 731, 80, 354,
              946, 452, 671, 262, 765, 490, 219, 206, 847, 551, 277, 955,
              575, 712, 278, 140, 111, 630, 758, 600, 245, 248, 51, 685,
              926, 543, 231, 653, 238, 53, 102, 423, 338, 734, 483, 102,
              697, 789, 140, 5, 987, 563, 1001, 951, 161, 416, 668, 957,
              901, 899, 487, 488, 666, 204, 774, 987, 294, 328, 292, 661,
              60, 929, 787, 91, 667, 587, 237, 547, 756, 740, 870, 959, 38,
              935, 943, 179, 427, 903, 857, 180, 956, 941, 37, 1021, 856,
              406, 806, 507, 190, 959, 766, 985, 893, 948, 296, 897, 38, 9,
              305, 581, 617, 109, 950, 1006, 343, 291, 465, 1012, 656, 556,
              536, 505, 910, 961, 137, 871, 516, 479, 279, 197, 828, 115,
              338, 166, 748, 469, 663, 263, 735, 190, 14, 754, 345, 809,
              302, 581, 690, 775, 197, 179, 625, 876, 654, 918, 415, 846,
              437, 527, 335, 88, 410, 685, 97, 189, 1005, 143, 488, 331,
              958, 254, 6, 267, 392, 241, 457, 771, 273, 976, 337, 309, 596,
              740, 586, 11, 267, 669, 368, 709, 241, 63, 683, 121, 476, 314,
              163, 415, 702, 514, 945, 916, 909, 720, 788, 318, 706, 120,
              654, 938, 963, 302, 376, 629, 226, 224, 980, 136, 489, 156,
              465, 765, 1012, 620, 382, 425, 718, 562, 934, 482, 775, 550,
              821, 680, 845, 223, 780, 253, 696, 772, 610, 894, 806, 83,
              538, 457, 540, 720, 370, 79, 939, 577, 114, 63, 848, 560, 924,
              517, 207, 586, 549, 153, 168, 335, 874, 532, 452, 119, 696,
              210, 734, 597, 500, 93, 920, 522, 456, 828, 56, 464, 135, 525,
              425, 467, 577, 59, 572, 473, 688, 826, 315, 740, 22, 405, 260,
              836, 3, 763, 223, 592, 74, 46, 433, 352, 717, 65, 554, 1017,
              61, 957, 915, 70, 1009, 956, 483, 32, 293, 418, 184, 787, 138,
              784, 656, 1001, 746, 661, 986, 430, 383, 1016, 912, 391, 459,
              890, 939, 928, 386, 384, 82, 699, 987, 677, 895, 552, 136,
              669, 880, 356, 121, 182, 1016, 550, 402, 541, 130, 745, 1002,
              228, 854, 3, 774, 23, 1001, 305, 474, 689, 736, 557, 434, 544,
              388, 843, 235, 253, 471, 354, 158, 282, 193, 959, 896, 742,
              783, 115, 32, 828, 676, 429, 629, 784, 958, 904, 910, 16, 246,
              211, 68, 103, 608, 34, 457, 612, 688, 720, 893, 49, 250, 758,
              45, 411, 449, 239, 552, 222, 772, 884, 794, 57, 143, 515,
              1017, 296, 239, 835, 938, 749, 589, 326, 591, 612, 791, 688,
              838, 328, 242, 309, 897, 146, 1009, 676, 533, 226, 423, 307,
              281, 62, 570, 971, 605, 900, 752, 933, 179, 641, 695, 437,
              569, 507, 48, 995, 352, 964, 658, 687, 390, 804, 537, 326,
              713, 426, 418, 152, 307, 385, 188, 772, 550, 484, 246, 869,
              230, 307, 878, 724, 147, 825, 474, 936, 59, 575, 422, 991,
              426, 570, 542, 137, 397, 248, 261, 208, 338, 662, 80, 944,
              460, 867, 379, 94, 548, 741, 849, 195, 52, 274, 386, 689, 619,
              617, 40, 894, 74, 192, 823, 779, 601, 741, 687, 572, 222, 490,
              213, 890, 928, 340, 310, 979, 930, 15, 216, 959, 194, 985,
              759, 120, 764, 1023, 772, 490, 936, 248, 712, 618, 720, 209,
              406, 937, 245, 565, 329, 794, 289, 389, 477, 546, 664, 367,
              315, 267, 368, 525, 903, 509, 477, 100, 822, 1004, 739, 480,
              779, 859, 327, 936, 208, 379, 320, 423, 46, 576, 884, 226,
              759, 149, 16, 267, 566, 957, 598, 593, 737, 427, 302, 156,
              200, 337, 235, 388, 583, 853, 251, 511, 563, 670, 966, 701,
              345, 263, 781, 841, 500, 989, 740, 657, 757, 502, 471, 172,
              750, 814, 360, 173, 143, 737, 559, 500, 188, 938, 910, 555,
              1014, 657, 980, 60, 536, 34, 859, 867, 76, 967, 837, 684, 49,
              782, 6, 422, 140, 862, 645, 236, 69, 724, 154, 9, 223, 517,
              466, 382, 61, 632, 653, 682, 956, 631, 934, 494, 675, 499, 16,
              6, 544, 564, 421, 12, 17, 542, 739, 281, 548, 1000, 293, 17,
              514, 832, 714, 690, 440, 825, 962, 931, 183, 109, 940, 98,
              536, 152, 246, 196, 634, 539, 258, 834, 362, 273, 814, 406,
              80, 382, 982, 415, 470, 578, 249, 1013, 713, 231, 307, 700,
              847, 868, 82, 669, 1015, 878, 665, 777, 32, 95, 415, 388, 386,
              565, 487, 57, 652, 9, 719, 175, 84, 511, 865, 444, 660, 803,
              339, 579, 1000, 878, 997, 97, 916, 540, 941, 43, 235, 216,
              922, 888, 708, 908, 580, 486, 277, 47, 946, 76, 700, 947, 287,
              920, 556, 577, 673, 33, 183, 951, 870, 322, 16, 984, 212, 601,
              147, 770, 840, 729, 840, 407, 951, 78, 306, 166, 577, 246,
              580, 854, 869, 398, 693, 918, 553, 339, 393, 773, 757, 143,
              809, 1012, 705, 741, 80, 512, 763, 997, 354, 54, 100, 447,
              237, 858, 77, 348, 619, 787, 628, 977, 609, 406, 992, 792,
              334, 30, 649, 279, 802, 1016, 461, 502, 233, 364, 566, 963,
              384, 442, 190, 696, 599, 676, 389, 87, 790, 633, 302, 817,
              252, 730, 75, 84, 274, 157, 389, 728, 802, 649, 157, 757, 398,
              324, 369, 109, 93, 5, 965, 315, 455, 368, 779, 276, 104, 135,
              89, 191, 441, 459, 570, 568, 524, 417, 105, 26, 91, 362, 567,
              95, 611, 612, 803, 332, 884, 394, 12, 298, 423, 397, 797, 86,
              742, 922, 572, 926, 1016, 1001, 248, 585, 533, 173, 701, 389,
              173, 142, 275, 308, 274, 504, 149, 64, 171, 445, 282, 431,
              306, 495, 801, 78, 369, 257, 966, 252, 738, 640, 507, 608,
              631, 200, 468, 109, 138, 311, 6, 971, 405, 340, 861, 635, 389,
              823, 882, 337, 450, 342, 440, 835, 843, 880, 666, 997, 608,
              139, 307, 328, 617, 970, 711, 205, 490, 321, 181, 987, 407,
              991, 326, 298, 752, 711, 648, 502, 990, 589, 800, 248, 333,
              385, 287, 836, 804, 402, 373, 116, 954, 577, 204, 606, 1021,
              558, 184, 698, 786, 563, 27, 975, 744, 472, 965, 725, 214,
              448, 816, 298, 851, 709, 70, 838, 868, 814, 814, 418, 689,
              511, 142, 648, 310, 247, 258, 674, 157, 732, 433 >>)

\* generator state: the seed it was last seeded with and the words drawn since
RandomSeed(seed) == [seed |-> seed, pos |-> 0]

\* int.bit_length()
RECURSIVE BitLength(_)
BitLength(n) == IF n = 0 THEN 0 ELSE 1 + BitLength(n \div 2)

\* random.getrandbits(k), k <= 10: [val, rng]
GetRandBits(k, g) ==
    [val |-> MTStream[g.seed][g.pos + 1] \div (2 ^ (10 - k)),
     rng |-> [g EXCEPT !.pos = @ + 1]]

\* Random._randbelow_with_getrandbits(n): draw k = n.bit_length() bits until
\* the value is below n
RECURSIVE RandBelow(_, _)
RandBelow(n, g) ==
    LET d == GetRandBits(BitLength(n), g)
    IN  IF d.val >= n THEN RandBelow(n, d.rng) ELSE d

Swap(xs, i, j) == [xs EXCEPT ![i] = xs[j], ![j] = xs[i]]

\* random.shuffle(x): for i in reversed(range(1, len(x))):
\*                        j = randbelow(i + 1); x[i], x[j] = x[j], x[i]
\* (i below is the 1-based position i + 1)
RECURSIVE ShuffleFrom(_, _, _)
ShuffleFrom(xs, i, g) ==
    IF i < 2 THEN [list |-> xs, rng |-> g]
    ELSE LET d == RandBelow(i, g)
         IN  ShuffleFrom(Swap(xs, i, d.val + 1), i - 1, d.rng)

Shuffle(xs, g) == ShuffleFrom(xs, Len(xs), g)

\* random.uniform(a, b) = a + (b - a) * random(); random() draws two words
RandomUniform(g) == [g EXCEPT !.pos = @ + 2]

\* random.randint(a, b) = a + _randbelow(b - a + 1): [val, rng]
RandInt(a, b, g) ==
    LET d == RandBelow(b - a + 1, g)
    IN  [val |-> a + d.val, rng |-> d.rng]

-----------------------------------------------------------------------------
(* create_sample_data.py: the sample annotation file and sample images.    *)

\* num_images a caller other than main() passes
NumImagesArgs == {1, 2}

\* num_images = 50 of main()'s two calls
SampleCount == 50

\* f"sample_image_{i:03d}"
SampleImageStem(i) ==
    "sample_image_" \o (IF i < 10 THEN "00" ELSE IF i < 100 THEN "0" ELSE "") \o ToString(i)

\* the "id" of the ten entries of `classes`
SampleClassIds == <<11, 12, 13, 15, 21, 37, 52, 57, 58, 59>>

\* lines 40-77: the features of objects j .. num_objects - 1 of image i.
\* Each draws random.choice(classes) and four random.uniform; the bounds,
\* products of 53-bit doubles, are not represented in the feature.
RECURSIVE SampleObjects(_, _, _, _)
SampleObjects(i, j, num_objects, g) ==
    IF j = num_objects THEN [features |-> << >>, rng |-> g]
    ELSE LET c == RandBelow(Len(SampleClassIds), g)
             g4 == RandomUniform(RandomUniform(RandomUniform(RandomUniform(c.rng))))
             rest == SampleObjects(i, j + 1, num_objects, g4)
         IN  [features |-> <<[image_id |-> File(SampleImageStem(i), "jpg"),
                              class_type |-> SampleClassIds[c.val + 1],
                              object |-> j]>> \o rest.features,
              rng |-> rest.rng]

\* lines 34-77: for i in range(num_images), num_objects = random.randint(1, 5)
SampleFeatures(i, num_images, g) ==
    LET RECURSIVE From(_, _, _)
        From(k, h, features) ==
            IF k >= num_images THEN [features |-> features, rng |-> h]
            ELSE LET n == RandInt(1, 5, h)
                     objs == SampleObjects(k, 0, n.val, n.rng)
                 IN  From(k + 1, objs.rng, features \o objs.features)
    IN  From(i, g, << >>)

\* lines 106-115: n rectangles, seven random.randint each
RECURSIVE SampleRects(_, _)
SampleRects(n, g) ==
    IF n = 0 THEN [rects |-> << >>, rng |-> g]
    ELSE LET x1 == RandInt(0, 900, g)
             y1 == RandInt(0, 900, x1.rng)
             dx == RandInt(50, 200, y1.rng)
             dy == RandInt(50, 200, dx.rng)
             c1 == RandInt(100, 255, dy.rng)
             c2 == RandInt(100, 255, c1.rng)
             c3 == RandInt(100, 255, c2.rng)
             x2 == x1.val + dx.val
             y2 == y1.val + dy.val
             rest == SampleRects(n - 1, c3.rng)
         IN  [rects |-> <<[x1 |-> x1.val, y1 |-> y1.val,
                           x2 |-> IF 1023 < x2 THEN 1023 ELSE x2,
                           y2 |-> IF 1023 < y2 THEN 1023 ELSE y2,
                           color |-> <<c1.val, c2.val, c3.val>>]>> \o rest.rects,
              rng |-> rest.rng]

\* lines 97-119: image i is 1024 x 1024 with random.randint(2, 8) rectangles
\* drawn on noise from numpy's own generator (not represented), written
\* over whatever sample_image_<i>.jpg held
RECURSIVE SampleImages(_, _, _, _)
SampleImages(i, num_images, g, fs) ==
    IF i = num_images THEN [files |-> fs, rng |-> g]
    ELSE LET n == RandInt(2, 8, g)
             r == SampleRects(n.val, n.rng)
             img == [w |-> 1024, h |-> 1024, rects |-> r.rects]
             name == File(SampleImageStem(i), "jpg")
         IN  SampleImages(i + 1, num_images, r.rng,
                          [fs EXCEPT ![SampleImagesDir] = (name :> img) @@ @])

-----------------------------------------------------------------------------
(* DatasetSplitter.split                                                   *)

\* every order in which a directory listing may enumerate the set S
Enumerations(S) ==
    {o \in [1..Cardinality(S) -> S] : \A i, j \in DOMAIN o : o[i] = o[j] => i = j}

\* image_files: the four globs, concatenated
ImageFileLists(fs, d) ==
    {o1 \o o2 \o o3 \o o4 :
        o1 \in Enumerations(Glob(fs, d, ImageExts[1])),
        o2 \in Enumerations(Glob(fs, d, ImageExts[2])),
        o3 \in Enumerations(Glob(fs, d, ImageExts[3])),
        o4 \in Enumerations(Glob(fs, d, ImageExts[4]))}

\* label_file = labels_dir / f"{img_file.stem}.txt"
LabelOf(img) == File(img.stem, "txt")

\* valid_pairs: the images whose label file exists, in image_files order
ValidPairs(image_files, fs, labels_dir) ==
    LET has(img) == LabelOf(img) \in DOMAIN fs[labels_dir]
        kept == SelectSeq(image_files, has)
    IN  [i \in 1..Len(kept) |-> [img |-> kept[i], lbl |-> LabelOf(kept[i])]]

\* int(ratio * total): the product is exact, int() truncates toward zero
PyInt(ratio, total) ==
    LET p == ratio * total
    IN  IF p >= 0 THEN p \div RatioDen ELSE -((-p) \div RatioDen)

\* Python's s[lo:hi] for integers lo, hi (negative indices count from the end)
SliceIndex(i, n) ==
    IF i < 0 THEN (IF i + n < 0 THEN 0 ELSE i + n)
    ELSE (IF i > n THEN n ELSE i)

PySlice(s, lo, hi) ==
    LET a == SliceIndex(lo, Len(s))
        b == SliceIndex(hi, Len(s))
    IN  IF a >= b THEN << >> ELSE SubSeq(s, a + 1, b)

\* train_end, val_end and the three slices of the shuffled pairs
SplitPairs(pairs, r) ==
    LET total == Len(pairs)
        train_end == PyInt(r.train, total)
        val_end == train_end + PyInt(r.val, total)
    IN  [train |-> PySlice(pairs, 0, train_end),
         val   |-> PySlice(pairs, train_end, val_end),
         test  |-> PySlice(pairs, val_end, total)]

\* shutil.copy2(src_dir / name, dst_dir / name)
Copy2_Move(fs, src_dir, name, dst_dir) ==
    IF name \in DOMAIN fs[src_dir]
    THEN [fs EXCEPT ![dst_dir] = (name :> fs[src_dir][name]) @@ @,
                    ![src_dir] = [f \in DOMAIN @ \ {name} |-> @[f]]]
    ELSE fs

Copy2(fs, src_dir, name, dst_dir) ==
    [fs EXCEPT ![dst_dir] = (name :> fs[src_dir][name]) @@ @]

\* for img_file, label_file in pairs: copy2 the image, then the label
RECURSIVE CopyPairs(_, _, _, _, _)
CopyPairs(fs, pairs, cfg, img_dir, lbl_dir) ==
    IF pairs = << >> THEN fs
    ELSE LET p == Head(pairs)
             one == Copy2(fs, cfg.images_dir, p.img, img_dir)
             two == Copy2(one, cfg.labels_dir, p.lbl, lbl_dir)
         IN  CopyPairs(two, Tail(pairs), cfg, img_dir, lbl_dir)

\* the copy loop over (train, val, test)
CopyAll(fs, parts, cfg) ==
    LET a == CopyPairs(fs, parts.train, cfg, ImgDir("train"), LblDir("train"))
        b == CopyPairs(a, parts.val, cfg, ImgDir("val"), LblDir("val"))
    IN  CopyPairs(b, parts.test, cfg, ImgDir("test"), LblDir("test"))

\* random.seed(seed) at the top of split()
SeedForSplit_NoReseed(seed, g) == g

SeedForSplit(seed, g) == RandomSeed(seed)

NoRun ==
    [cfg |-> NoSplitter, seed |-> 0, image_files |-> << >>,
     rngBefore |-> RandomSeed(0),
     train |-> << >>, val |-> << >>, test |-> << >>,
     counts |-> [train |-> 0, val |-> 0, test |-> 0]]

-----------------------------------------------------------------------------
(* xViewToYOLOConverter._bbox_to_yolo_format                               *)

\* pixel coordinates are counted in 1/CoordDen pixel (a power of two)
CoordDen == 2048

\* digits after the decimal point in f"{value:.6f}"
FmtDigits == 6

Px(n) == n * CoordDen

\* The floats that are no multiple of 1/CoordDen below 2^28: inf is written
\* FloatInf and -inf is written -FloatInf, a finite float of that magnitude
\* or more is written FloatMax or -FloatMax (the code only compares such a
\* coordinate with the frame), and nan is written FloatNaN.
FloatInf == 2 ^ 28
FloatMax == FloatInf - 1
FloatNaN == -FloatInf - 1

\* a < b for two floats: every comparison with nan is false
FloatLess(a, b) == a # FloatNaN /\ b # FloatNaN /\ a < b

\* min(a, b) and max(a, b): the first argument unless the second is smaller
\* (resp. greater), so that min(nan, b) = nan and max(0, nan) = 0
Min2(a, b) == IF FloatLess(b, a) THEN b ELSE a
Max2(a, b) == IF FloatLess(a, b) THEN b ELSE a

\* max(0, min(v, limit)), limit being img_width or img_height in pixels
Clamp_Off(v, limit) == v

Clamp(v, limit) == Max2(0, Min2(v, Px(limit)))

\* long division: k more decimal digits of r / den appended to q
RECURSIVE LongDiv(_, _, _, _)
LongDiv(q, r, den, k) ==
    IF k = 0 THEN [q |-> q, r |-> r]
    ELSE LongDiv(q * 10 + (r * 10) \div den, (r * 10) % den, den, k - 1)

\* f"{num/den:.6f}" as a number of 10^-6: the double nearest to num / den,
\* rounded to six decimals.  The double is within 2^-53 of the quotient, so
\* the two round alike unless the quotient lies half-way between two
\* six-decimal numbers: then a dyadic quotient is the double itself and goes
\* to the even digit, and any other goes the way its 53-bit rounding went.
Fmt6_FiveDigits(num, den) ==
    LET d == LongDiv(num \div den, num % den, den, FmtDigits - 1)
    IN  10 * (IF 2 * d.r >= den THEN d.q + 1 ELSE d.q)

Fmt6_HalfUp(num, den) ==
    LET d == LongDiv(num \div den, num % den, den, FmtDigits)
    IN  IF 2 * d.r >= den THEN d.q + 1 ELSE d.q

Fmt6(num, den) ==
    LET d == LongDiv(num \div den, num % den, den, FmtDigits)
        RECURSIVE Gcd(_, _)
        Gcd(a, b) == IF b = 0 THEN a ELSE Gcd(b, a % b)
        \* 2^k modulo t
        RECURSIVE PowMod(_, _)
        PowMod(k, t) == IF k = 0 THEN 1 % t ELSE (2 * PowMod(k - 1, t)) % t
        \* the half-way quotient (2 q + 1) / (2 * 10^6) in lowest terms is
        \* n / (2^(FmtDigits + 1) * t), with t odd
        Odd(q) == 5 ^ FmtDigits \div Gcd(2 * q + 1, 5 ^ FmtDigits)
        Top(q) == (2 * q + 1) \div Gcd(2 * q + 1, 5 ^ FmtDigits)
        \* the least k with quotient * 2^k >= 1
        RECURSIVE Shift(_, _, _)
        Shift(n, t, k) ==
            IF n * 2 ^ k >= 2 ^ (FmtDigits + 1) * t THEN k ELSE Shift(n, t, k + 1)
        \* what rounding quotient * 2^(52 + k) to an integer cuts off, in 1/t
        Cut(n, t) == ((n % t) * PowMod(52 + Shift(n, t, 0) - (FmtDigits + 1), t)) % t
        RoundsUp(n, t) == 2 * Cut(n, t) > t
    IN  IF 2 * d.r > den THEN d.q + 1
        ELSE IF 2 * d.r < den THEN d.q
        ELSE IF Odd(d.q) = 1 THEN d.q + (d.q % 2)
        ELSE IF RoundsUp(Top(d.q), Odd(d.q)) THEN d.q + 1
        ELSE d.q

\* the return value None
NoLine == << >>

\* bbox = <<xmin, ymin, xmax, ymax>>; the result is None or the four fields
\* "x_center y_center box_width box_height", each in 10^-6
BboxToYoloFormat_RejectFirst(bbox, img_width, img_height) ==
    LET dw == 2 * CoordDen * img_width
        dh == 2 * CoordDen * img_height
    IN  IF \/ bbox[3] - bbox[1] <= 0 \/ bbox[4] - bbox[2] <= 0
           \/ bbox[1] < 0 \/ bbox[2] < 0
           \/ bbox[3] > Px(img_width) \/ bbox[4] > Px(img_height)
        THEN NoLine
        ELSE << Fmt6(bbox[1] + bbox[3], dw), Fmt6(bbox[2] + bbox[4], dh),
                Fmt6(2 * (bbox[3] - bbox[1]), dw), Fmt6(2 * (bbox[4] - bbox[2]), dh) >>

BboxToYoloFormat(bbox, img_width, img_height) ==
    LET xmin == Clamp(bbox[1], img_width)
        ymin == Clamp(bbox[2], img_height)
        xmax == Clamp(bbox[3], img_width)
        ymax == Clamp(bbox[4], img_height)
        \* numerators over 2 * CoordDen * img_width (resp. img_height)
        x_center == xmin + xmax
        y_center == ymin + ymax
        box_width == 2 * (xmax - xmin)
        box_height == 2 * (ymax - ymin)
        dw == 2 * CoordDen * img_width
        dh == 2 * CoordDen * img_height
    IN  IF box_width <= 0 \/ box_height <= 0 \/ x_center < 0 \/ y_center < 0
        THEN NoLine
        ELSE << Fmt6(x_center, dw), Fmt6(y_center, dh),
                Fmt6(box_width, dw), Fmt6(box_height, dh) >>

\* image sizes (img.shape) and box coordinates the normaliser is called with
ImageSizes == { <<4, 3>>, <<640, 480>>, <<1024, 1024>> }

CoordArgs == { Px(-5), 0, 1, Px(2), Px(100), Px(100) + 1, Px(300), Px(1024), Px(1030) }

BoxArgs == CoordArgs \X CoordArgs \X CoordArgs \X CoordArgs

NormArgs == {<<bbox, size[1], size[2]>> : bbox \in BoxArgs, size \in ImageSizes}

NotCalled == [returned |-> FALSE, line |-> NoLine]

\* the call _bbox_to_yolo_format(bbox, w, h) runs and returns
Normalise ==
    /\ normIn # << >>
    /\ ~normOut.returned
    /\ normOut' = [returned |-> TRUE,
                   line |-> BboxToYoloFormat(normIn[1], normIn[2], normIn[3])]
    /\ UNCHANGED normIn
    /\ UNCHANGED splitVars
    /\ UNCHANGED convVars
    /\ UNCHANGED sample

-----------------------------------------------------------------------------
(* Python values and strings used by the converter.                        *)
(*                                                                         *)
(* A Python string is a sequence of one-character strings, so that split,  *)
(* strip, int() and float() are computed character by character.           *)

\* property values of an annotation record: a str, an int, a float with an
\* integral value (what a numeric column with a missing value holds: 13.0),
\* the float nan that stands for a missing value, or None
Str(s)   == [t |-> "str", s |-> s, n |-> 0]
IntV(n)  == [t |-> "int", s |-> << >>, n |-> n]
FloatV(n) == [t |-> "float", s |-> << >>, n |-> n]
NaN      == [t |-> "nan", s |-> << >>, n |-> 0]
None     == [t |-> "none", s |-> << >>, n |-> 0]

DigitChars == <<"0", "1", "2", "3", "4", "5", "6", "7", "8", "9">>

IsDigit(c) == \E i \in 1..10 : DigitChars[i] = c

DigitVal(c) == (CHOOSE i \in 1..10 : DigitChars[i] = c) - 1

\* ord(c) for the characters that occur in the model
Ord(c) ==
    CASE c = " " -> 32 [] c = "," -> 44 [] c = "-" -> 45 [] c = "." -> 46
      [] IsDigit(c) -> 48 + DigitVal(c)
      [] c = "N" -> 78
      [] c = "a" -> 97 [] c = "b" -> 98 [] c = "c" -> 99 [] c = "d" -> 100
      [] c = "e" -> 101 [] c = "f" -> 102 [] c = "g" -> 103 [] c = "i" -> 105
      [] c = "j" -> 106 [] c = "n" -> 110 [] c = "o" -> 111 [] c = "p" -> 112
      [] c = "t" -> 116 [] c = "x" -> 120

\* a < b for two str (lexicographic by code point)
RECURSIVE StrLess(_, _)
StrLess(a, b) ==
    IF b = << >> THEN FALSE
    ELSE IF a = << >> THEN TRUE
    ELSE IF Head(a) # Head(b) THEN Ord(Head(a)) < Ord(Head(b))
    ELSE StrLess(Tail(a), Tail(b))

\* the decimal digits of a natural number
RECURSIVE NatDigits(_)
NatDigits(n) ==
    IF n < 10 THEN <<DigitChars[n + 1]>>
    ELSE NatDigits(n \div 10) \o <<DigitChars[(n % 10) + 1]>>

\* str(n) for an int
IntDigits(n) == IF n < 0 THEN <<"-">> \o NatDigits(-n) ELSE NatDigits(n)

\* str(v); the repr of an integral float keeps ".0": str(13.0) = "13.0"
PyStr(v) ==
    CASE v.t = "str"  -> v.s
      [] v.t = "int"  -> IntDigits(v.n)
      [] v.t = "float" -> IntDigits(v.n) \o <<".", "0">>
      [] v.t = "nan"  -> <<"n", "a", "n">>
      [] v.t = "none" -> <<"N", "o", "n", "e">>

\* bool(v): the empty str, 0, 0.0 and None are false; nan is true
Truthy(v) ==
    CASE v.t = "str"  -> v.s # << >>
      [] v.t = "int"  -> v.n # 0
      [] v.t = "float" -> v.n # 0
      [] v.t = "nan"  -> TRUE
      [] v.t = "none" -> FALSE

\* s.split(sep) for a one-character separator
RECURSIVE PySplitFrom(_, _, _)
PySplitFrom(s, sep, cur) ==
    IF s = << >> THEN <<cur>>
    ELSE IF Head(s) = sep THEN <<cur>> \o PySplitFrom(Tail(s), sep, << >>)
    ELSE PySplitFrom(Tail(s), sep, Append(cur, Head(s)))

PySplit(s, sep) == PySplitFrom(s, sep, << >>)

\* s.strip()
RECURSIVE LStrip(_)
LStrip(s) == IF s # << >> /\ Head(s) = " " THEN LStrip(Tail(s)) ELSE s

RECURSIVE RStrip(_)
RStrip(s) ==
    IF s # << >> /\ s[Len(s)] = " " THEN RStrip(SubSeq(s, 1, Len(s) - 1)) ELSE s

PyStrip(s) == RStrip(LStrip(s))

AllDigits(s) == \A i \in 1..Len(s) : IsDigit(s[i])

\* the natural number written by a sequence of digits
RECURSIVE DigitsVal(_)
DigitsVal(s) ==
    IF s = << >> THEN 0
    ELSE 10 * DigitsVal(SubSeq(s, 1, Len(s) - 1)) + DigitVal(s[Len(s)])

\* a raised exception / a returned value
Raised == [ok |-> FALSE, val |-> 0]
Returned(v) == [ok |-> TRUE, val |-> v]

\* an optional sign taken off a stripped str: [neg, rest]
Unsigned(s) ==
    IF s # << >> /\ Head(s) = "-" THEN [neg |-> TRUE, rest |-> Tail(s)]
    ELSE IF s # << >> /\ Head(s) = "+" THEN [neg |-> FALSE, rest |-> Tail(s)]
    ELSE [neg |-> FALSE, rest |-> s]

\* int(s) for a str: optional blanks, optional sign, decimal digits;
\* anything else raises ValueError
IntOfStr(s) ==
    LET u == Unsigned(PyStrip(s))
    IN  IF u.rest = << >> \/ ~AllDigits(u.rest) THEN Raised
        ELSE Returned(IF u.neg THEN -DigitsVal(u.rest) ELSE DigitsVal(u.rest))

\* int(v): int(13.0) = 13, int(nan) raises ValueError, int(None) raises
\* TypeError
IntOf(v) ==
    CASE v.t = "int"  -> Returned(v.n)
      [] v.t = "float" -> Returned(v.n)
      [] v.t = "str"  -> IntOfStr(v.s)
      [] v.t = "nan"  -> Raised
      [] v.t = "none" -> Raised

\* float(s) for a str, in 1/CoordDen: optional blanks, an optional sign, and
\* then "inf" or "nan" in any case, or digits with an optional decimal point
\* ("12", "1.5", ".5", "3.") and an optional exponent ("1e2", "5e-1");
\* anything else made of the characters of the model raises ValueError.
\* A decimal of 2^1024 - 2^970 = 1.7976931348623158e308 or more rounds to
\* inf, any other of FloatInf / CoordDen or more is written FloatMax, and a
\* smaller one is the number of whole 1/CoordDen in it (the strings of the
\* model denote multiples of 1/CoordDen, which float() returns exactly).
\* The digits of the mantissa write a number below 2^31.
FloatOfStr(s) ==
    LET \* m * 10^k, and FloatMax from there on
        RECURSIVE TimesTen(_, _)
        TimesTen(m, k) ==
            IF k = 0 THEN m
            ELSE IF m > FloatMax \div 10 THEN FloatMax
            ELSE TimesTen(10 * m, k - 1)
        \* (q + r / d) * 2^n without its fraction, for r < d
        RECURSIVE Doubled(_, _, _, _)
        Doubled(q, r, d, n) ==
            IF n = 0 THEN q
            ELSE Doubled(2 * q + (IF 2 * r >= d THEN 1 ELSE 0), (2 * r) % d, d, n - 1)
        \* CoordDen = 2^Bits
        Bits == BitLength(CoordDen) - 1
        \* m / 10^k in 1/CoordDen, for k > 0 and a quotient below FloatInf:
        \* m * 2^(Bits - k) / 5^k
        Fraction(m, k) ==
            IF k > Bits + 1 THEN 0
            ELSE IF k = Bits + 1 THEN m \div (2 * 5 ^ k)
            ELSE Doubled(m \div 5 ^ k, m % 5 ^ k, 5 ^ k, Bits - k)
        \* whole pixels in 1/CoordDen
        Pixels(x) == IF x >= FloatInf \div CoordDen THEN FloatMax ELSE x * CoordDen
        \* m has w digits: m * 10^scale >= 1.7976931348623158e308
        Overflows(m, w, scale) ==
            \/ w + scale > 309
            \/ /\ w + scale = 309
               /\ IF w = 10 THEN m > 1797693134 ELSE m * 10 ^ (9 - w) > 179769313
        Magnitude(m, scale) ==
            IF m = 0 THEN 0
            ELSE IF Overflows(m, Len(NatDigits(m)), scale) THEN FloatInf
            ELSE IF scale >= 0 THEN Pixels(TimesTen(m, scale))
            ELSE IF scale >= -9 /\ m \div 10 ^ (-scale) >= FloatInf \div CoordDen THEN FloatMax
            ELSE Fraction(m, -scale)
        Signed(neg, m) == IF neg THEN -m ELSE m
        \* the number an exponent writes, 9999 standing for any greater one
        ExponentVal(digits) ==
            IF \E i \in 1..(Len(digits) - 4) : digits[i] # "0" THEN 9999
            ELSE DigitsVal(digits)
        Digits(neg, digits, scale) ==
            IF digits = << >> \/ ~AllDigits(digits) THEN Raised
            ELSE Returned(Signed(neg, Magnitude(DigitsVal(digits), scale)))
        Exponent(neg, ip, fp, ex) ==
            IF ex.rest = << >> \/ ~AllDigits(ex.rest) THEN Raised
            ELSE Digits(neg, ip \o fp, Signed(ex.neg, ExponentVal(ex.rest)) - Len(fp))
        Mantissa(neg, parts, ex) ==
            IF Len(parts) > 2 THEN Raised
            ELSE Exponent(neg, parts[1], IF Len(parts) = 2 THEN parts[2] ELSE << >>, ex)
        Number(neg, ep) ==
            IF Len(ep) > 2 THEN Raised
            ELSE Mantissa(neg, PySplit(ep[1], "."),
                          IF Len(ep) = 2 THEN Unsigned(ep[2])
                          ELSE [neg |-> FALSE, rest |-> <<"0">>])
        Word(neg, rest, word) ==
            IF word = <<"i", "n", "f">> THEN Returned(IF neg THEN -FloatInf ELSE FloatInf)
            ELSE IF word = <<"n", "a", "n">> THEN Returned(FloatNaN)
            ELSE Number(neg, PySplit(rest, "e"))
        Lowered(u) ==
            Word(u.neg, u.rest, [i \in 1..Len(u.rest) |-> IF u.rest[i] = "N" THEN "n" ELSE u.rest[i]])
    IN  Lowered(Unsigned(PyStrip(s)))

-----------------------------------------------------------------------------
(* xViewToYOLOConverter._load_class_mapping                                *)

\* a class_dict maps raw identifiers (the keys YAML parsed: int, float or str) to
\* names.  A dict keeps its keys in the order they were inserted (the order of
\* the file), so it is written as the sequence of its items <<key, name>> in
\* that order; the built-in one has the ten identifiers below
Dict(keys) == [i \in 1..Len(keys) |-> <<keys[i], "name">>]

DefaultClassDict ==
    Dict(<<IntV(11), IntV(12), IntV(13), IntV(15), IntV(21),
           IntV(37), IntV(52), IntV(57), IntV(58), IntV(59)>>)

EmptyDict == << >>

\* the mapping selected by use_simplified in the loaded configuration;
\* config.get(mapping_key, {}).  Without a configuration file: the default.
ClassDictOf(cargs) ==
    IF ~cargs.has_config THEN DefaultClassDict
    ELSE LET mapping_key == IF cargs.use_simplified THEN "simplified_classes"
                            ELSE "classes"
         IN  IF mapping_key \in DOMAIN cargs.config THEN cargs.config[mapping_key]
             ELSE EmptyDict

\* an int or a float; nan (the YAML key .nan) is a float
Numeric(v) == v.t \in {"int", "float", "nan"}

\* a < b for two dict keys that compare: two numbers or two str; no number
\* is below or above nan
KeyLess(a, b) ==
    IF Numeric(a) THEN a.t # "nan" /\ b.t # "nan" /\ a.n < b.n
    ELSE StrLess(a.s, b.s)

\* sorted() compares the keys pairwise: an int and a float compare, a number
\* and a str raise TypeError
Sortable(keys) == \A a, b \in keys : (Numeric(a) /\ Numeric(b)) \/ a.t = b.t

\* the keys of sorted(class_dict.items()), for the keys in dict order.  Two
\* items of a dict differ in their keys, so the tuples are ordered by their
\* keys.  sorted() is list.sort on a copy; for fewer than 64 items that is
\* one run: the longest ascending (or strictly descending, then reversed)
\* start of the list, and a binary insertion of each later item into what
\* precedes it.  Every test is `x < y` and nothing else, so with a nan key
\* the result depends on the order of the dict.
SortedKeys(keys) ==
    LET n == Len(keys)
        descending == n >= 2 /\ KeyLess(keys[2], keys[1])
        \* count_run: the length of the run of which k items are known
        RECURSIVE CountRun(_)
        CountRun(k) ==
            IF k = n THEN k
            ELSE IF KeyLess(keys[k + 1], keys[k]) = descending THEN CountRun(k + 1)
            ELSE k
        run == IF n < 2 THEN n ELSE CountRun(2)
        \* reverse_slice of a descending run
        first == [i \in 1..n |-> IF descending /\ i <= run THEN keys[run + 1 - i]
                                 ELSE keys[i]]
        \* binarysort: where pivot goes among list[l+1..r], all of which are
        \* in order
        RECURSIVE Place(_, _, _, _)
        Place(list, pivot, l, r) ==
            IF l >= r THEN l
            ELSE LET p == l + (r - l) \div 2
                 IN  IF KeyLess(pivot, list[p + 1]) THEN Place(list, pivot, l, p)
                     ELSE Place(list, pivot, p + 1, r)
        Moved(list, start, l) ==
            [i \in 1..n |-> IF i <= l THEN list[i]
                            ELSE IF i = l + 1 THEN list[start + 1]
                            ELSE IF i <= start + 1 THEN list[i - 1]
                            ELSE list[i]]
        RECURSIVE Binarysort(_, _)
        Binarysort(list, start) ==
            IF start >= n THEN list
            ELSE Binarysort(Moved(list, start, Place(list, list[start + 1], 0, start)),
                            start + 1)
    IN  Binarysort(first, run)

\* for xview_id, class_name in sorted(...): class_map[int(xview_id)] = yolo_id;
\* yolo_id += 1
RECURSIVE AssignIds(_, _, _)
AssignIds(keys, yolo_id, class_map) ==
    IF keys = << >> THEN Returned(class_map)
    ELSE LET k == IntOf(Head(keys))
         IN  IF ~k.ok THEN Raised
             ELSE AssignIds(Tail(keys), yolo_id + 1, (k.val :> yolo_id) @@ class_map)

EmptyClassMap == [k \in {} |-> 0]

\* the class_map (raw identifier -> class index), or the exception raised
LoadClassMapping(cargs) ==
    LET class_dict == ClassDictOf(cargs)
        keys == [i \in 1..Len(class_dict) |-> class_dict[i][1]]
    IN  IF ~Sortable({keys[i] : i \in 1..Len(keys)}) THEN Raised
        ELSE AssignIds(SortedKeys(keys), 0, EmptyClassMap)

-----------------------------------------------------------------------------
(* Annotation records and their geometry.                                  *)

\* geometry of a record: None, a shapely object (what gpd.read_file puts in
\* the geometry column: a Polygon, a LineString, a Point, each with .bounds)
\* or a GeoJSON dict; coordinates is the list of rings, a ring a list of
\* <<x, y>> points in 1/CoordDen pixel.  A LineString is written as one ring
\* of its points and a Point as one ring of one point.
NoGeometry == [kind |-> "none", type |-> "", coordinates |-> << >>]
Shapely(type, rings) == [kind |-> "shapely", type |-> type, coordinates |-> rings]
GeoDict(type, rings) == [kind |-> "dict", type |-> type, coordinates |-> rings]

\* min / max of a non-empty list of numbers: the list is scanned from the
\* left and the item kept is replaced by a later one that is smaller (resp.
\* greater), so that min([1, nan, 0]) = 0 and min([nan, 1]) = nan
RECURSIVE MinOf(_)
MinOf(xs) ==
    IF Len(xs) = 1 THEN xs[1]
    ELSE Min2(MinOf(SubSeq(xs, 1, Len(xs) - 1)), xs[Len(xs)])

RECURSIVE MaxOf(_)
MaxOf(xs) ==
    IF Len(xs) = 1 THEN xs[1]
    ELSE Max2(MaxOf(SubSeq(xs, 1, Len(xs) - 1)), xs[Len(xs)])

\* the return value None of a box computation
NoBox == << >>

\* [min(x_coords), min(y_coords), max(x_coords), max(y_coords)] of a ring
RingBox(coords) ==
    LET x_coords == [i \in 1..Len(coords) |-> coords[i][1]]
        y_coords == [i \in 1..Len(coords) |-> coords[i][2]]
    IN  <<MinOf(x_coords), MinOf(y_coords), MaxOf(x_coords), MaxOf(y_coords)>>

\* _extract_bbox_from_geometry: geometry.bounds of a shapely object of any
\* type (line 93 asks for the attribute only) is the box of its points, for a
\* polygon those of its exterior ring; for a dict, the box of coordinates[0]
\* when the type is Polygon; an exception (no ring, empty ring) gives None
ExtractBboxFromGeometry(geometry) ==
    CASE geometry.kind = "none" -> NoBox
      [] geometry.kind = "shapely" -> RingBox(geometry.coordinates[1])
      [] geometry.kind = "dict" ->
            IF geometry.type # "Polygon" THEN NoBox
            ELSE IF geometry.coordinates = << >> THEN NoBox
            ELSE IF geometry.coordinates[1] = << >> THEN NoBox
            ELSE RingBox(geometry.coordinates[1])

\* an annotation record (a row of the GeoDataFrame): the properties it
\* carries, by key, and its geometry
Row(props, geometry) == [props |-> props, geometry |-> geometry]

Has(ann, key) == key \in DOMAIN ann.props

\* lines 198-204: the first of 'type', 'class_type', 'type_id' the record
\* has, through int(); [raised, present, val]
ClassTypeOf(ann) ==
    LET key == IF Has(ann, "type") THEN "type"
               ELSE IF Has(ann, "class_type") THEN "class_type"
               ELSE IF Has(ann, "type_id") THEN "type_id"
               ELSE ""
    IN  IF key = "" THEN [raised |-> FALSE, present |-> FALSE, val |-> 0]
        ELSE LET r == IntOf(ann.props[key])
             IN  [raised |-> ~r.ok, present |-> r.ok, val |-> r.val]

\* [float(x.strip()) for x in fields]: the list, or the ValueError
RECURSIVE FloatsOf(_)
FloatsOf(fields) ==
    IF fields = << >> THEN Returned(<< >>)
    ELSE LET f == FloatOfStr(PyStrip(Head(fields)))
             rest == FloatsOf(Tail(fields))
         IN  IF ~f.ok \/ ~rest.ok THEN Raised
             ELSE Returned(<<f.val>> \o rest.val)

\* lines 212-221: the box of a record, [raised, bbox]
BboxOf(ann) ==
    IF Has(ann, "bounds_imcoords")
    THEN LET coords_str == PyStr(ann.props["bounds_imcoords"])
         IN  IF coords_str # << >> /\ coords_str # <<"n", "a", "n">>
             THEN LET coords == FloatsOf(PySplit(coords_str, ","))
                  IN  IF ~coords.ok THEN [raised |-> TRUE, bbox |-> NoBox]
                      ELSE IF Len(coords.val) = 4
                           THEN [raised |-> FALSE, bbox |-> coords.val]
                           ELSE [raised |-> FALSE, bbox |-> NoBox]
             ELSE [raised |-> FALSE, bbox |-> NoBox]
    ELSE IF ann.geometry # NoGeometry
    THEN [raised |-> FALSE, bbox |-> ExtractBboxFromGeometry(ann.geometry)]
    ELSE [raised |-> FALSE, bbox |-> NoBox]

\* a line of a label file, f"{yolo_class_id} {yolo_line}\n": the class index
\* followed by the four fields
LabelLine(yolo_class_id, yolo_line) == <<yolo_class_id>> \o yolo_line

\* The body of `for ann in annotations` (lines 196-236) for one record:
\*   "unknown"    class_type not in class_map: continue
\*   "invalid"    no box, or an exception: invalid_annotations += 1
\*   "degenerate" the normaliser returned None
\*   "line"       a label line was appended
NoOutcome == [kind |-> "", class_type |-> 0, bbox |-> NoBox, line |-> << >>]

AnnotationOutcome_DegenerateInvalid(ann, class_map, w, h) ==
    LET ct == ClassTypeOf(ann)
        none == [NoOutcome EXCEPT !.kind = "invalid"]
    IN  IF ct.raised THEN none
        ELSE IF ~ct.present \/ ct.val \notin DOMAIN class_map
        THEN [none EXCEPT !.kind = "unknown"]
        ELSE LET b == BboxOf(ann)
                 yolo_class_id == class_map[ct.val]
             IN  IF b.raised \/ b.bbox = NoBox
                 THEN [none EXCEPT !.class_type = ct.val]
                 ELSE LET yolo_line == BboxToYoloFormat(b.bbox, w, h)
                      IN  IF yolo_line = NoLine
                          THEN [none EXCEPT !.class_type = ct.val]
                          ELSE [kind |-> "line", class_type |-> ct.val,
                                bbox |-> b.bbox,
                                line |-> LabelLine(yolo_class_id, yolo_line)]

AnnotationOutcome(ann, class_map, w, h) ==
    LET ct == ClassTypeOf(ann)
        none == [NoOutcome EXCEPT !.kind = "invalid"]
    IN  IF ct.raised THEN none
        ELSE IF ~ct.present \/ ct.val \notin DOMAIN class_map
        THEN [none EXCEPT !.kind = "unknown"]
        ELSE LET b == BboxOf(ann)
                 yolo_class_id == class_map[ct.val]
             IN  IF b.raised \/ b.bbox = NoBox
                 THEN [none EXCEPT !.class_type = ct.val]
                 ELSE LET yolo_line == BboxToYoloFormat(b.bbox, w, h)
                      IN  IF yolo_line = NoLine
                          THEN [kind |-> "degenerate", class_type |-> ct.val,
                                bbox |-> b.bbox, line |-> << >>]
                          ELSE [kind |-> "line", class_type |-> ct.val,
                                bbox |-> b.bbox,
                                line |-> LabelLine(yolo_class_id, yolo_line)]

-----------------------------------------------------------------------------
(* xViewToYOLOConverter.convert: the annotation index.                     *)

\* lines 151-158: the image_id of a record; [present, val]
ImageIdOf(row) ==
    IF Has(row, "image_id") THEN [present |-> TRUE, val |-> row.props["image_id"]]
    ELSE IF Has(row, "feature_id")
    THEN [present |-> TRUE,
          val |-> Str(PySplit(PyStr(row.props["feature_id"]), ".")[1])]
    ELSE [present |-> FALSE, val |-> None]

EmptyIndex == [k \in {} |-> << >>]

\* d[key].append(row) on a defaultdict(list)
AppendTo_Front(d, key, row) ==
    IF key \in DOMAIN d THEN [d EXCEPT ![key] = <<row>> \o @]
    ELSE (key :> <<row>>) @@ d

AppendTo(d, key, row) ==
    IF key \in DOMAIN d THEN [d EXCEPT ![key] = Append(@, row)]
    ELSE (key :> <<row>>) @@ d

\* lines 147-161: annotations_by_image
RECURSIVE GroupRows(_, _)
GroupRows(rows, d) ==
    IF rows = << >> THEN d
    ELSE LET id == ImageIdOf(Head(rows))
         IN  IF id.present /\ Truthy(id.val)
             THEN GroupRows(Tail(rows), AppendTo(d, PyStr(id.val), Head(rows)))
             ELSE GroupRows(Tail(rows), d)

\* annotations_by_image.get(key, [])
GetGroup(d, key) == IF key \in DOMAIN d THEN d[key] ELSE << >>

\* lines 180-182: the group under the stem, and the group under the file
\* name when that one is empty
LookupAnnotations_Both(d, image_name, image_filename) ==
    GetGroup(d, image_name) \o GetGroup(d, image_filename)

LookupAnnotations(d, image_name, image_filename) ==
    LET annotations == GetGroup(d, image_name)
    IN  IF annotations = << >> THEN GetGroup(d, image_filename) ELSE annotations

-----------------------------------------------------------------------------
(* xViewToYOLOConverter: disk, constructor, statistics.                    *)

\* the converter's images_dir, output_dir and labels_dir = output_dir/labels
ConvImagesDir == "corpus"
ConvOutputDir == "yolo"
ConvLabelsDir == "yolo/labels"

ConvDirs == {ConvImagesDir, ConvOutputDir, ConvLabelsDir}

\* content of an image file: its pixel size; cv2.imread returns None for a
\* file that is not a decodable image
Image(w, h) == [w |-> w, h |-> h]
Undecodable == [w |-> 0, h |-> 0]

\* cv2.imread: None, or an array whose shape starts with (height, width)
NoImg == [shape |-> << >>]
Imread(content) ==
    IF content = Undecodable THEN NoImg ELSE [shape |-> <<content.h, content.w>>]

\* str(Path.suffix) without the dot, as characters
ExtChars(ext) ==
    CASE ext = "jpg"  -> <<"j", "p", "g">>
      [] ext = "png"  -> <<"p", "n", "g">>
      [] ext = "tif"  -> <<"t", "i", "f">>
      [] ext = "tiff" -> <<"t", "i", "f", "f">>

\* image_file.stem and image_file.name
StemOf(image_file) == image_file.stem
NameOf(image_file) == image_file.stem \o <<".">> \o ExtChars(image_file.ext)

\* label_path.touch(): creates an empty file, leaves an existing one as it is
Touch(fs, d, name) ==
    IF name \in DOMAIN fs[d] THEN fs
    ELSE [fs EXCEPT ![d] = (name :> << >>) @@ @]

\* open(label_path, 'w') and writelines(label_lines)
WriteLines(fs, d, name, label_lines) ==
    [fs EXCEPT ![d] = (name :> label_lines) @@ @]

EmptyCounts == [c \in {} |-> 0]

\* self.stats as __init__ leaves it (lines 41-49)
InitStats ==
    [total_images |-> 0, processed_images |-> 0, skipped_images |-> 0,
     total_objects |-> 0, objects_by_class |-> EmptyCounts,
     missing_images |-> << >>, invalid_annotations |-> 0]

\* self.stats['invalid_annotations'] += 1
CountInvalid(stats) == [stats EXCEPT !.invalid_annotations = @ + 1]

\* self.stats['objects_by_class'][class_type] += 1 on a defaultdict(int)
CountObject_FirstSeenZero(stats, class_type) ==
    [stats EXCEPT !.objects_by_class =
        IF class_type \in DOMAIN @ THEN [@ EXCEPT ![class_type] = @ + 1]
        ELSE (class_type :> 0) @@ @]

CountObject(stats, class_type) ==
    [stats EXCEPT !.objects_by_class =
        IF class_type \in DOMAIN @ THEN [@ EXCEPT ![class_type] = @ + 1]
        ELSE (class_type :> 1) @@ @]

\* lines 173-174
CountSkipped_Unlisted(stats, image_name) ==
    [stats EXCEPT !.skipped_images = @ + 1]

CountSkipped(stats, image_name) ==
    [stats EXCEPT !.skipped_images = @ + 1,
                  !.missing_images = Append(@, image_name)]

\* lines 239-243: [files, stats] after the label file of an image was or was
\* not written
WriteLabels_Always(fs, stats, image_name, label_lines, objects_count) ==
    [files |-> WriteLines(fs, ConvLabelsDir, File(image_name, "txt"), label_lines),
     stats |-> [stats EXCEPT !.processed_images = @ + 1,
                             !.total_objects = @ + objects_count]]

WriteLabels(fs, stats, image_name, label_lines, objects_count) ==
    IF label_lines # << >>
    THEN [files |-> WriteLines(fs, ConvLabelsDir, File(image_name, "txt"), label_lines),
          stats |-> [stats EXCEPT !.processed_images = @ + 1,
                                  !.total_objects = @ + objects_count]]
    ELSE [files |-> fs, stats |-> stats]

\* arguments of xViewToYOLOConverter(...): whether classes_config names an
\* existing file, what yaml.safe_load returns for it, and use_simplified
ConvArgs(has_config, config, use_simplified) ==
    [has_config |-> has_config, config |-> config, use_simplified |-> use_simplified]

NoConfigFile == [k \in {} |-> EmptyDict]

\* integer keys, listed out of order in the file
ConfigInt ==
    ("simplified_classes" :> Dict(<<IntV(13), IntV(11), IntV(12)>>))
    @@ ("classes" :> Dict(<<IntV(21), IntV(9), IntV(13), IntV(100)>>))

\* quoted keys, which YAML loads as str
ConfigStr ==
    ("simplified_classes" :> Dict(<<Str(<<"9">>), Str(<<"1", "3">>), Str(<<"1", "0", "0">>)>>))
    @@ ("classes" :> Dict(<<Str(<<"2", "1">>), Str(<<"1", "3">>)>>))

\* one quoted key among plain ones; no 'classes' entry
ConfigMixed ==
    ("simplified_classes" :> Dict(<<IntV(11), Str(<<"1", "3">>)>>))

\* a .nan key before a plain one, and one among plain ones
ConfigNaN ==
    ("simplified_classes" :> Dict(<<NaN, IntV(1)>>))
    @@ ("classes" :> Dict(<<IntV(3), NaN, IntV(2), IntV(1)>>))

ConverterArgs ==
    { ConvArgs(FALSE, NoConfigFile, TRUE),
      ConvArgs(TRUE, ConfigInt, TRUE),
      ConvArgs(TRUE, ConfigInt, FALSE),
      ConvArgs(TRUE, ConfigStr, TRUE),
      ConvArgs(TRUE, ConfigStr, FALSE),
      ConvArgs(TRUE, ConfigMixed, TRUE),
      ConvArgs(TRUE, ConfigMixed, FALSE),
      ConvArgs(TRUE, ConfigNaN, TRUE),
      ConvArgs(TRUE, ConfigNaN, FALSE) }

\* no converter constructed yet
NoConverter ==
    [status |-> "none", args |-> ConvArgs(FALSE, NoConfigFile, TRUE),
     class_map |-> EmptyClassMap, stats |-> InitStats]

\* convert() has not returned.  What it returns is self.stats itself, which
\* the caller reads as conv.stats from then on; reported holds the counts as
\* they stood when the call printed and returned them (lines 245-246)
NothingReturned == [valid |-> FALSE, reported |-> InitStats]

\* no convert() call made yet
NoJob ==
    [pc |-> "idle", calls |-> 0, image_files |-> << >>, i |-> 0,
     annotations_by_image |-> EmptyIndex,
     w |-> 0, h |-> 0, annotations |-> << >>, j |-> 0,
     label_lines |-> << >>, objects_count |-> 0,
     outcome |-> NoOutcome, returned |-> NothingReturned]

\* the annotation file is absent
NoStore == [exists |-> FALSE, rows |-> << >>]
Store(rows) == [exists |-> TRUE, rows |-> rows]

-----------------------------------------------------------------------------
(* Inputs of the converter: image corpora, label directories left by       *)
(* earlier work, annotation stores.                                        *)

StemA == <<"a">>
StemB == <<"b">>
StemC == <<"c">>
StemD == <<"d">>
StemX == <<"x">>

\* a decodable 1024 x 1024 jpg, a decodable 4 x 3 png, a tif that does not
\* decode, and a file the globs do not match
CorpusMixed ==
    (File(StemA, "jpg") :> Image(1024, 1024)) @@ (File(StemB, "png") :> Image(4, 3))
    @@ (File(StemC, "tif") :> Undecodable) @@ (File(StemD, "bmp") :> Image(4, 3))

\* two images that share a stem
CorpusSameStem ==
    (File(StemA, "jpg") :> Image(1024, 1024)) @@ (File(StemA, "png") :> Image(4, 3))

Corpora == {CorpusMixed, CorpusSameStem}

\* a label line left by an earlier run
StaleLine == <<7, 500000, 500000, 250000, 250000>>

\* the label directory before the run: absent, or holding label files of an
\* earlier run and a file that belongs to no image
LabelsAbsent == EmptyDir
LabelsStale ==
    (File(StemA, "txt") :> <<StaleLine>>) @@ (File(StemB, "txt") :> <<StaleLine>>)
    @@ (File(StemX, "txt") :> <<StaleLine, StaleLine>>)

PriorLabels == {LabelsAbsent, LabelsStale}

\* str values used by the records
Chars100 == <<"1", "0", "0">>
Chars300 == <<"3", "0", "0">>

\* ",".join(fields)
RECURSIVE Join(_)
Join(fields) ==
    IF Len(fields) = 1 THEN fields[1]
    ELSE fields[1] \o <<",">> \o Join(Tail(fields))

BoundsScenario == Str(Join(<<Chars100, Chars100, Chars300, Chars300>>))
BoundsSpaced   == Str(Join(<<<<" ", "0">>, <<"0", ".", "5", " ">>, <<"2">>, <<"1", ".", "5">>>>))
BoundsPartly   == Str(Join(<<<<"-", "5">>, <<"0">>, <<"2", "0", "0", "0">>, <<"5", "1", "2">>>>))
BoundsFlat     == Str(Join(<<<<"5">>, <<"5">>, <<"5">>, <<"9">>>>))
BoundsInverted == Str(Join(<<Chars300, Chars300, Chars100, Chars100>>))
BoundsThree    == Str(Join(<<<<"1">>, <<"2">>, <<"3">>>>))
BoundsLetters  == Str(Join(<<<<"a">>, <<"b">>, <<"c">>, <<"d">>>>))
BoundsEmpty    == Str(<< >>)
\* "1e2,1e2,3e2,3e2", "nan,1,2,3" and "0,0,inf,inf"
BoundsExponent == Str(Join(<<<<"1", "e", "2">>, <<"1", "e", "2">>, <<"3", "e", "2">>, <<"3", "e", "2">>>>))
BoundsNanField == Str(Join(<<<<"n", "a", "n">>, <<"1">>, <<"2">>, <<"3">>>>))
BoundsInfField == Str(Join(<<<<"0">>, <<"0">>, <<"i", "n", "f">>, <<"i", "n", "f">>>>))
\* "0,0,200000,1e400": a field beyond the coordinates kept exactly and one
\* that float() rounds to inf
BoundsHugeField == Str(Join(<<<<"0">>, <<"0">>, <<"2", "0", "0", "0", "0", "0">>, <<"1", "e", "4", "0", "0">>>>))

\* a polygon whose first ring spans (1,1)-(3,2) pixels; the second ring of
\* the dict form lies elsewhere
Ring1 == <<<<Px(1), Px(1)>>, <<Px(3), Px(1)>>, <<Px(3), Px(2)>>, <<Px(1), Px(2)>>, <<Px(1), Px(1)>>>>
Ring2 == <<<<Px(0), Px(0)>>, <<Px(4), Px(0)>>, <<Px(4), Px(3)>>, <<Px(0), Px(0)>>>>
\* a ring with a nan abscissa after its first point
RingNaN == <<<<Px(1), Px(1)>>, <<FloatNaN, Px(5)>>, <<Px(0), Px(3)>>, <<Px(1), Px(1)>>>>

Props1(k1, v1) == (k1 :> v1)
Props2(k1, v1, k2, v2) == (k1 :> v1) @@ (k2 :> v2)
Props3(k1, v1, k2, v2, k3, v3) == (k1 :> v1) @@ (k2 :> v2) @@ (k3 :> v3)
Props4(k1, v1, k2, v2, k3, v3, k4, v4) == Props3(k1, v1, k2, v2, k3, v3) @@ (k4 :> v4)

IdA == Str(StemA)
IdAjpg == Str(<<"a", ".", "j", "p", "g">>)
FeatB7 == Str(<<"b", ".", "7">>)

\* the annotation records the stores are made of
RowScenario   == Row(Props3("image_id", IdA, "type", IntV(13), "bounds_imcoords", BoundsScenario), NoGeometry)
RowUnmapped   == Row(Props3("image_id", IdA, "type", IntV(99), "bounds_imcoords", BoundsScenario), NoGeometry)
RowNoClass    == Row(Props2("image_id", IdA, "bounds_imcoords", BoundsScenario), NoGeometry)
RowClassNaN   == Row(Props3("image_id", IdA, "type_id", NaN, "bounds_imcoords", BoundsScenario), NoGeometry)
RowClassWord  == Row(Props3("image_id", IdA, "type", Str(<<"c", "a", "t">>), "bounds_imcoords", BoundsScenario), NoGeometry)
RowThree      == Row(Props3("image_id", IdA, "type", IntV(11), "bounds_imcoords", BoundsThree), NoGeometry)
RowLetters    == Row(Props3("image_id", IdA, "type", IntV(11), "bounds_imcoords", BoundsLetters), NoGeometry)
RowBoundsNaN  == Row(Props3("image_id", IdA, "type", IntV(11), "bounds_imcoords", NaN), NoGeometry)
RowBoundsNone == Row(Props3("image_id", IdA, "type", IntV(11), "bounds_imcoords", BoundsEmpty), NoGeometry)
RowNoGeometry == Row(Props2("image_id", IdA, "type", IntV(11)), NoGeometry)
RowPoint      == Row(Props2("image_id", IdA, "type", IntV(11)), Shapely("Point", <<<<<<Px(5), Px(5)>>>>>>))
RowLine       == Row(Props2("image_id", IdA, "type", IntV(11)), Shapely("LineString", <<<<<<Px(1), Px(1)>>, <<Px(3), Px(2)>>>>>>))
RowFlat       == Row(Props3("image_id", IdA, "type", IntV(11), "bounds_imcoords", BoundsFlat), NoGeometry)
RowInverted   == Row(Props3("image_id", IdA, "type", IntV(11), "bounds_imcoords", BoundsInverted), NoGeometry)
RowPartly     == Row(Props3("image_id", IdA, "type_id", IntV(12), "bounds_imcoords", BoundsPartly), NoGeometry)
RowPolygon    == Row(Props2("image_id", IdA, "class_type", Str(<<"1", "2">>)), Shapely("Polygon", <<Ring1>>))
RowDictPoly   == Row(Props2("feature_id", FeatB7, "type", IntV(13)), GeoDict("Polygon", <<Ring1, Ring2>>))
RowBadAndPoly == Row(Props3("image_id", IdA, "type", IntV(11), "bounds_imcoords", BoundsThree), Shapely("Polygon", <<Ring1>>))
RowNaNAndPoly == Row(Props3("image_id", IdA, "type", IntV(11), "bounds_imcoords", NaN), Shapely("Polygon", <<Ring1>>))
RowFeatureB   == Row(Props3("feature_id", FeatB7, "type_id", IntV(21), "bounds_imcoords", BoundsSpaced), NoGeometry)
RowFileKeyed  == Row(Props3("image_id", IdAjpg, "type", IntV(13), "bounds_imcoords", BoundsScenario), NoGeometry)
RowNoId       == Row(Props2("type", IntV(13), "bounds_imcoords", BoundsScenario), NoGeometry)
\* records of a store in which some records carry image_id and these carry
\* feature_id only: their image_id is missing (nan) or null (None)
RowIdNaN      == Row(Props4("image_id", NaN, "feature_id", FeatB7, "type_id", IntV(21), "bounds_imcoords", BoundsSpaced), NoGeometry)
RowIdNone     == Row(Props4("image_id", None, "feature_id", FeatB7, "type_id", IntV(21), "bounds_imcoords", BoundsSpaced), NoGeometry)

\* bounds fields in exponent notation, a nan field and inf fields; a class
\* identifier and an image identifier read from a float column (13.0)
RowExponent   == Row(Props3("image_id", IdA, "type", IntV(13), "bounds_imcoords", BoundsExponent), NoGeometry)
RowNanField   == Row(Props3("image_id", IdA, "type", IntV(11), "bounds_imcoords", BoundsNanField), NoGeometry)
RowInfField   == Row(Props3("image_id", IdA, "type", IntV(11), "bounds_imcoords", BoundsInfField), NoGeometry)
RowClassFloat == Row(Props3("image_id", IdA, "type", FloatV(13), "bounds_imcoords", BoundsScenario), NoGeometry)
RowIdFloat    == Row(Props3("image_id", FloatV(13), "type", IntV(13), "bounds_imcoords", BoundsScenario), NoGeometry)
RowHugeField  == Row(Props3("image_id", IdA, "type", IntV(11), "bounds_imcoords", BoundsHugeField), NoGeometry)
RowNanRing    == Row(Props2("image_id", IdA, "type", IntV(13)), GeoDict("Polygon", <<RingNaN>>))

RowArgs ==
    { RowScenario, RowUnmapped, RowNoClass, RowClassNaN, RowClassWord, RowThree,
      RowLetters, RowBoundsNaN, RowBoundsNone, RowNoGeometry, RowPoint, RowLine,
      RowFlat,
      RowPartly, RowPolygon, RowDictPoly, RowBadAndPoly, RowNaNAndPoly,
      RowFeatureB, RowFileKeyed, RowNoId, RowInverted, RowIdNaN, RowIdNone,
      RowExponent, RowNanField, RowInfField, RowClassFloat, RowIdFloat,
      RowHugeField, RowNanRing }

\* records that may precede or follow another one in a two-record store
RowPairArgs == { RowScenario, RowUnmapped, RowLetters, RowFlat, RowFeatureB }

\* the annotation stores: no file, no record, one record, two records
StoreArgs ==
    {NoStore, Store(<< >>)}
    \cup {Store(<<r>>) : r \in RowArgs}
    \cup {Store(<<r1, r2>>) : r1 \in RowPairArgs, r2 \in RowArgs}

-----------------------------------------------------------------------------
(* Actions of the converter.                                               *)

\* xViewToYOLOConverter(...): the class mapping is loaded first, then the
\* statistics are zeroed and output_dir and output_dir/labels are created
ConvConstruct(cargs) ==
    LET m == LoadClassMapping(cargs)
    IN  /\ conv.status = "none"
        /\ conv' = IF m.ok
                   THEN [status |-> "ok", args |-> cargs, class_map |-> m.val,
                         stats |-> InitStats]
                   ELSE [status |-> "raised", args |-> cargs,
                         class_map |-> EmptyClassMap, stats |-> InitStats]
        /\ dirs' = IF m.ok THEN dirs \cup {ConvOutputDir, ConvLabelsDir} ELSE dirs
        /\ UNCHANGED <<files, store, job>>
        /\ UNCHANGED <<splitter, phase, rng, last, ref, runs>>
        /\ UNCHANGED normVars
        /\ UNCHANGED sample

\* convert(), lines 131-163: read the store, list the images, build the
\* annotation index
ConvStartWith(image_files) ==
    /\ job' = [NoJob EXCEPT
                 !.pc = "image",
                 !.calls = job.calls + 1,
                 !.image_files = image_files,
                 !.i = 1,
                 !.annotations_by_image = GroupRows(store.rows, EmptyIndex),
                 !.returned = job.returned]
    /\ conv' = [conv EXCEPT !.stats.total_images = Len(image_files)]

ConvStart ==
    /\ conv.status = "ok"
    /\ job.pc \in {"idle", "done"}
    /\ job.calls < MaxConverts
    /\ IF store.exists
       THEN \E image_files \in ImageFileLists(files, ConvImagesDir) :
                ConvStartWith(image_files)
       ELSE \* gpd.read_file raises
            /\ job' = [job EXCEPT !.pc = "aborted", !.calls = @ + 1]
            /\ conv' = conv
    /\ UNCHANGED <<dirs, files, store>>
    /\ UNCHANGED <<splitter, phase, rng, last, ref, runs>>
    /\ UNCHANGED normVars
    /\ UNCHANGED sample

\* `continue` and the end of the loop body: the image loop goes on to the
\* next image
NextImage_Stop(j) == [j EXCEPT !.pc = "aborted", !.outcome = NoOutcome]

NextImage(j) == [j EXCEPT !.pc = "image", !.i = @ + 1, !.outcome = NoOutcome]

\* one pass of `for image_file in image_files` up to the annotation loop
\* (lines 167-193)
ConvImage ==
    /\ job.pc = "image"
    /\ job.i <= Len(job.image_files)
    /\ LET image_file == job.image_files[job.i]
           image_name == StemOf(image_file)
           image_filename == NameOf(image_file)
           img == Imread(files[ConvImagesDir][image_file])
           annotations == LookupAnnotations(job.annotations_by_image,
                                            image_name, image_filename)
       IN  IF img = NoImg
           THEN /\ conv' = [conv EXCEPT !.stats = CountSkipped(@, image_name)]
                /\ job' = NextImage(job)
                /\ files' = files
           ELSE IF annotations = << >>
           THEN /\ files' = Touch(files, ConvLabelsDir, File(image_name, "txt"))
                /\ job' = [NextImage(job) EXCEPT
                                      !.h = img.shape[1], !.w = img.shape[2]]
                /\ conv' = conv
           ELSE /\ job' = [job EXCEPT !.pc = "ann",
                                      !.h = img.shape[1], !.w = img.shape[2],
                                      !.annotations = annotations, !.j = 1,
                                      !.label_lines = << >>, !.objects_count = 0,
                                      !.outcome = NoOutcome]
                /\ conv' = conv
                /\ files' = files
    /\ UNCHANGED <<dirs, store>>
    /\ UNCHANGED <<splitter, phase, rng, last, ref, runs>>
    /\ UNCHANGED normVars
    /\ UNCHANGED sample

\* one pass of `for ann in annotations` (lines 195-236)
ConvAnnotation ==
    /\ job.pc = "ann"
    /\ job.j <= Len(job.annotations)
    /\ LET ann == job.annotations[job.j]
           out == AnnotationOutcome(ann, conv.class_map, job.w, job.h)
       IN  /\ job' = [job EXCEPT
                        !.j = @ + 1,
                        !.outcome = out,
                        !.label_lines = IF out.kind = "line" THEN Append(@, out.line) ELSE @,
                        !.objects_count = IF out.kind = "line" THEN @ + 1 ELSE @]
           /\ conv' = [conv EXCEPT !.stats =
                         CASE out.kind = "invalid" -> CountInvalid(@)
                           [] out.kind = "line" -> CountObject(@, out.class_type)
                           [] OTHER -> @]
    /\ UNCHANGED <<dirs, files, store>>
    /\ UNCHANGED <<splitter, phase, rng, last, ref, runs>>
    /\ UNCHANGED normVars
    /\ UNCHANGED sample

\* after the annotation loop: the label file (lines 238-243)
ConvWrite ==
    /\ job.pc = "ann"
    /\ job.j > Len(job.annotations)
    /\ LET image_name == StemOf(job.image_files[job.i])
           res == WriteLabels(files, conv.stats, image_name,
                              job.label_lines, job.objects_count)
       IN  /\ files' = res.files
           /\ conv' = [conv EXCEPT !.stats = res.stats]
    /\ job' = NextImage(job)
    /\ UNCHANGED <<dirs, store>>
    /\ UNCHANGED <<splitter, phase, rng, last, ref, runs>>
    /\ UNCHANGED normVars
    /\ UNCHANGED sample

\* after the image loop: _print_statistics() and return self.stats
ConvFinish ==
    /\ job.pc = "image"
    /\ job.i > Len(job.image_files)
    /\ job' = [job EXCEPT !.pc = "done",
                          !.returned = [valid |-> TRUE, reported |-> conv.stats]]
    /\ UNCHANGED <<dirs, files, store, conv>>
    /\ UNCHANGED <<splitter, phase, rng, last, ref, runs>>
    /\ UNCHANGED normVars
    /\ UNCHANGED sample

-----------------------------------------------------------------------------
(* Actions of the splitter.                                                *)

Construct(args) ==
    LET res == SplitterInit(args.ratios, dirs)
    IN  /\ runs < MaxRuns
        /\ splitter' = args
        /\ phase' = IF res.raised THEN "failed" ELSE "constructed"
        /\ dirs' = res.dirs
        /\ UNCHANGED <<files, rng, last, ref, runs>>
        /\ UNCHANGED normVars
        /\ UNCHANGED sample
        /\ UNCHANGED convVars

SplitRun(seed, image_files) ==
    /\ LET g0 == SeedForSplit(seed, rng)
           valid_pairs == ValidPairs(image_files, files, splitter.labels_dir)
           sh == Shuffle(valid_pairs, g0)
           parts == SplitPairs(sh.list, splitter.ratios)
           run == [cfg |-> splitter, seed |-> seed, image_files |-> image_files,
                   rngBefore |-> rng,
                   train |-> parts.train, val |-> parts.val, test |-> parts.test,
                   counts |-> [train |-> Len(parts.train), val |-> Len(parts.val),
                               test |-> Len(parts.test)]]
       IN  /\ rng' = sh.rng
           /\ files' = CopyAll(files, parts, splitter)
           /\ last' = run
           /\ ref' = IF runs = 0 THEN run ELSE ref
    /\ phase' = "splitDone"
    /\ runs' = runs + 1
    /\ UNCHANGED <<dirs, splitter>>
    /\ UNCHANGED normVars
    /\ UNCHANGED sample
    /\ UNCHANGED convVars

\* split(seed) on the constructed splitter; the directory listing comes back
\* in one of the orders the file system may use
Split(seed) ==
    /\ phase \in {"constructed", "splitDone"}
    /\ runs < MaxRuns
    /\ \E image_files \in ImageFileLists(files, splitter.images_dir) :
          SplitRun(seed, image_files)

\* another user of the module-level generator running between two splits:
\* one call of SatelliteAugmenter._rotate, _adjust_brightness or
\* _adjust_contrast (scripts/augment_data.py), which draws one
\* random.uniform and touches no file
OtherRandomUse ==
    /\ runs < MaxRuns
    /\ rng.pos + 2 <= MaxRngPos
    /\ rng' = RandomUniform(rng)
    /\ UNCHANGED <<dirs, files, splitter, phase, last, ref, runs>>
    /\ UNCHANGED normVars
    /\ UNCHANGED sample
    /\ UNCHANGED convVars

\* create_sample_geojson(sample_data/sample_xview.geojson, num_images): the
\* draws advance the generator, then open(output_path, 'w') writes the
\* features, or raises FileNotFoundError when sample_data does not exist
CreateSampleGeojson(num_images) ==
    LET res == SampleFeatures(0, num_images, rng)
    IN  /\ runs < MaxRuns
        /\ rng.pos <= MaxRngPos
        /\ rng' = res.rng
        /\ files' = IF SampleDataDir \in dirs
                    THEN [files EXCEPT ![SampleDataDir] = (SampleGeojson :> res.features) @@ @]
                    ELSE files
        /\ UNCHANGED <<dirs, splitter, phase, last, ref, runs>>
        /\ UNCHANGED normVars
        /\ UNCHANGED sample
        /\ UNCHANGED convVars

\* create_sample_images(sample_data/images, num_images):
\* images_dir.mkdir(parents=True, exist_ok=True), then one image per index
CreateSampleImages(num_images) ==
    LET res == SampleImages(0, num_images, rng, files)
    IN  /\ runs < MaxRuns
        /\ rng.pos <= MaxRngPos
        /\ dirs' = dirs \cup {SampleDataDir, SampleImagesDir}
        /\ rng' = res.rng
        /\ files' = res.files
        /\ UNCHANGED <<splitter, phase, last, ref, runs>>
        /\ UNCHANGED normVars
        /\ UNCHANGED sample
        /\ UNCHANGED convVars

\* main(), lines 126-127: sample_dir.mkdir(exist_ok=True)
MainMakeSampleDir ==
    /\ sample = "idle"
    /\ dirs' = dirs \cup {SampleDataDir}
    /\ sample' = "made"
    /\ UNCHANGED <<files, splitter, phase, rng, last, ref, runs>>
    /\ UNCHANGED normVars
    /\ UNCHANGED convVars

\* main(), lines 130-131: create_sample_geojson(geojson_path, num_images=50);
\* main ends with the FileNotFoundError if sample_data is gone
MainCreateGeojson ==
    LET res == SampleFeatures(0, SampleCount, rng)
    IN  /\ sample = "made"
        /\ rng' = res.rng
        /\ files' = IF SampleDataDir \in dirs
                    THEN [files EXCEPT ![SampleDataDir] = (SampleGeojson :> res.features) @@ @]
                    ELSE files
        /\ sample' = IF SampleDataDir \in dirs THEN "annotated" ELSE "failed"
        /\ UNCHANGED <<dirs, splitter, phase, last, ref, runs>>
        /\ UNCHANGED normVars
        /\ UNCHANGED convVars

\* main(), lines 134-135: create_sample_images(sample_dir / "images",
\* num_images=50); the prints of lines 137-141 follow
MainCreateImages ==
    LET res == SampleImages(0, SampleCount, rng, files)
    IN  /\ sample = "annotated"
        /\ dirs' = dirs \cup {SampleDataDir, SampleImagesDir}
        /\ rng' = res.rng
        /\ files' = res.files
        /\ sample' = "done"
        /\ UNCHANGED <<splitter, phase, last, ref, runs>>
        /\ UNCHANGED normVars
        /\ UNCHANGED convVars

\* the disk before any run; the generator is seeded by the interpreter with
\* a value the program does not choose
InitSplit ==
    /\ dirs = InitialDirs
    /\ files = InitialFiles
    /\ splitter = NoSplitter
    /\ phase = "idle"
    /\ rng \in {RandomSeed(s) : s \in Seeds}
    /\ last = NoRun
    /\ ref = NoRun
    /\ runs = 0
    /\ sample = "idle"

-----------------------------------------------------------------------------
(* scripts/augment_data.py: augment_dataset.                               *)

\* num_augmentations a caller passes
AugmentCounts == {1, 2}

\* f"{image_file.stem}_aug{i}"
AugStem(stem, i) == stem \o <<"_", "a", "u", "g">> \o NatDigits(i)

\* a label line read with [float(x) for x in parts] and written with
\* ' '.join(map(str, bbox)): every field is a float, the class index 7
\* comes back as 7.0
AugLine(line) == <<FloatV(line[1])>> \o Tail(line)

\* lines 136-142: the boxes of the image's label file, none when there is
\* no such file
AugBboxes(fs, labels_dir, stem) ==
    LET label_file == File(stem, "txt")
    IN  IF label_file \in DOMAIN fs[labels_dir]
        THEN LET lines == fs[labels_dir][label_file]
             IN  [k \in 1..Len(lines) |-> AugLine(lines[k])]
        ELSE << >>

\* lines 145-157: versions i .. n - 1 of one image.  apply() draws
\* random.uniform for the brightness and for the contrast (the noise comes
\* from numpy's generator) and leaves the size and the boxes as they are;
\* the label file is written only when there are boxes.  st = [files, rng]
RECURSIVE AugmentVersions(_, _, _, _, _, _)
AugmentVersions(stem, image, bboxes, i, n, st) ==
    IF i >= n THEN st
    ELSE LET g == RandomUniform(RandomUniform(st.rng))
             aug_image == Image(image.shape[2], image.shape[1])
             fs1 == [st.files EXCEPT ![AugImagesDir] =
                        (File(AugStem(stem, i), "jpg") :> aug_image) @@ @]
             fs2 == IF bboxes # << >>
                    THEN [fs1 EXCEPT ![AugLabelsDir] =
                             (File(AugStem(stem, i), "txt") :> bboxes) @@ @]
                    ELSE fs1
         IN  AugmentVersions(stem, image, bboxes, i + 1, n, [files |-> fs2, rng |-> g])

\* lines 128-157 for the image files of one glob, in any order: an image
\* that does not decode is passed over
RECURSIVE AugmentImages(_, _, _, _, _)
AugmentImages(image_files, images_dir, labels_dir, n, st) ==
    IF image_files = {} THEN st
    ELSE LET image_file == CHOOSE f \in image_files : TRUE
             image == Imread(st.files[images_dir][image_file])
             bboxes == AugBboxes(st.files, labels_dir, image_file.stem)
             next == IF image = NoImg THEN st
                     ELSE AugmentVersions(image_file.stem, image, bboxes, 0, n, st)
         IN  AugmentImages(image_files \ {image_file}, images_dir, labels_dir, n, next)

\* image_files = glob('*.jpg') + glob('*.png'): every jpg before every png,
\* so that of two images with one stem the png is written last
AugmentAll(fs, g, images_dir, labels_dir, n) ==
    LET jpgs == AugmentImages(Glob(fs, images_dir, "jpg"), images_dir, labels_dir, n,
                              [files |-> fs, rng |-> g])
    IN  AugmentImages(Glob(fs, images_dir, "png"), images_dir, labels_dir, n, jpgs)

\* augment_dataset(images_dir, labels_dir, "augmented", num_augmentations),
\* called while no convert() is running
AugmentDataset(images_dir, labels_dir, num_augmentations) ==
    LET res == AugmentAll(files, rng, images_dir, labels_dir, num_augmentations)
    IN  /\ job.pc \in {"idle", "done", "aborted"}
        /\ rng.pos <= MaxRngPos
        /\ dirs' = dirs \cup {AugOutputDir, AugImagesDir, AugLabelsDir}
        /\ files' = res.files
        /\ rng' = res.rng
        /\ UNCHANGED <<splitter, phase, last, ref, runs>>
        /\ UNCHANGED normVars
        /\ UNCHANGED sample
        /\ UNCHANGED convVars

\* no converter exists and there is no annotation file
InitNoConv ==
    /\ store = NoStore
    /\ conv = NoConverter
    /\ job = NoJob

Init ==
    /\ InitSplit
    /\ normIn = << >>
    /\ normOut = NotCalled
    /\ InitNoConv

Next ==
    \/ \E args \in SplitterArgs : Construct(args)
    \/ \E s \in Seeds : Split(s)
    \/ OtherRandomUse

Spec == Init /\ [][Next]_vars

\* the same program, called with non-negative ratios only
NonNegativeArgs ==
    {a \in SplitterArgs : a.ratios.train >= 0 /\ a.ratios.val >= 0 /\ a.ratios.test >= 0}

NextNonNeg ==
    \/ \E args \in NonNegativeArgs : Construct(args)
    \/ \E s \in Seeds : Split(s)
    \/ OtherRandomUse

SpecNonNeg == Init /\ [][NextNonNeg]_vars

\* create_sample_data: main() run once, step by step, in a process in which
\* its two functions are also called directly and the generator is drawn
\* from by others
NextSample ==
    \/ MainMakeSampleDir
    \/ MainCreateGeojson
    \/ MainCreateImages
    \/ \E n \in NumImagesArgs : CreateSampleGeojson(n)
    \/ \E n \in NumImagesArgs : CreateSampleImages(n)
    \/ OtherRandomUse

SpecSample == Init /\ [][NextSample]_vars

\* the splitter, and create_sample_data's two functions called before or
\* between its runs
NextSplitSample ==
    \/ Next
    \/ \E n \in NumImagesArgs : CreateSampleGeojson(n)
    \/ \E n \in NumImagesArgs : CreateSampleImages(n)

SpecSplitSample == Init /\ [][NextSplitSample]_vars

\* the box normaliser on its own, called once with any of the boxes and
\* image sizes above
InitNorm ==
    /\ InitSplit
    /\ normIn \in NormArgs
    /\ normOut = NotCalled
    /\ InitNoConv

NextNorm == Normalise

SpecNorm == InitNorm /\ [][NextNorm]_vars

\* the converter on its own: one converter is constructed over a disk that
\* holds one of the corpora, one of the earlier label directories and one
\* of the annotation stores, and convert() is called on it
ConvFiles(corpus, labels) ==
    [d \in AllDirs \cup ConvDirs |->
        CASE d = ConvImagesDir -> corpus
          [] d = ConvLabelsDir -> labels
          [] OTHER -> EmptyDir]

InitConv ==
    /\ \E corpus \in Corpora, labels \in PriorLabels :
          /\ files = ConvFiles(corpus, labels)
          /\ dirs = IF labels = EmptyDir THEN {ConvImagesDir} ELSE ConvDirs
    /\ store \in StoreArgs
    /\ conv = NoConverter
    /\ job = NoJob
    /\ splitter = NoSplitter
    /\ phase = "idle"
    /\ rng = RandomSeed(1)
    /\ last = NoRun
    /\ ref = NoRun
    /\ runs = 0
    /\ sample = "idle"
    /\ normIn = << >>
    /\ normOut = NotCalled

NextConv ==
    \/ \E cargs \in ConverterArgs : ConvConstruct(cargs)
    \/ ConvStart
    \/ ConvImage
    \/ ConvAnnotation
    \/ ConvWrite
    \/ ConvFinish

SpecConv == InitConv /\ [][NextConv]_vars

\* the converter, and the augmenter run on the corpus and the label
\* directory before or after a conversion
NextAugment ==
    \/ NextConv
    \/ \E n \in AugmentCounts : AugmentDataset(ConvImagesDir, ConvLabelsDir, n)

SpecAugment == InitConv /\ [][NextAugment]_vars

\* the converter run with an output directory that does not exist yet
InitConvFresh == InitConv /\ files[ConvLabelsDir] = EmptyDir

SpecConvFresh == InitConvFresh /\ [][NextConv]_vars

\* the annotation loop has a record left to take up; this is
\* ENABLED <<ConvAnnotation>>_vars, since the step always advances job.j
AnnotationPending == job.pc = "ann" /\ job.j <= Len(job.annotations)

\* WF_vars(ConvAnnotation) with its ENABLED written out as above
AnnotationFairness == []<>(~AnnotationPending) \/ []<><<ConvAnnotation>>_vars

\* convert() is sequential code: once called it keeps executing until it
\* returns or raises; the caller need not construct a converter or call it
ConvFairness ==
    /\ WF_vars(ConvImage)
    /\ AnnotationFairness
    /\ WF_vars(ConvWrite)
    /\ WF_vars(ConvFinish)

SpecConvLive == SpecConvFresh /\ ConvFairness

\* the pipeline: a converter run with no output directory yet, then a
\* DatasetSplitter over the same images and the labels the run produced
PipelineArgs ==
    { Args(ConvImagesDir, ConvLabelsDir, RatioEven),
      Args(ConvImagesDir, ConvLabelsDir, RatioHalf) }

PipeConvert == phase = "idle" /\ NextConv

PipeConstruct(args) == job.pc = "done" /\ Construct(args)

PipeSplit(seed) == job.pc = "done" /\ Split(seed)

NextPipe ==
    \/ PipeConvert
    \/ \E args \in PipelineArgs : PipeConstruct(args)
    \/ \E s \in Seeds : PipeSplit(s)

SpecPipe == InitConvFresh /\ [][NextPipe]_vars

-----------------------------------------------------------------------------
(* Properties of the splitter.                                             *)

\* the images of a sequence of (image, label) pairs
ImagesOf(pairs) == {pairs[i].img : i \in 1..Len(pairs)}
LabelsOf(pairs) == {pairs[i].lbl : i \in 1..Len(pairs)}

\* the images of directory d that split() enumerates
GlobbedImages(fs, d) == UNION {Glob(fs, d, ImageExts[i]) : i \in 1..Len(ImageExts)}

\* the enumerated images that have a same-stem label file
LabelledImages(fs, cfg) ==
    {f \in GlobbedImages(fs, cfg.images_dir) : LabelOf(f) \in DOMAIN fs[cfg.labels_dir]}

\* |sum - 1.0| <= 0.01
WithinTolerance(r) == Abs(r.train + r.val + r.test - RatioDen) * 100 <= RatioDen

\* a step that is a DatasetSplitter(...) call or a split() call
CtorStep == phase' \in {"failed", "constructed"} /\ <<phase', splitter'>> # <<phase, splitter>>
SplitStep == runs' # runs

\* C1: after every split run the train, val and test partitions are pairwise
\* disjoint in image identity and their union is exactly the set of images
\* that have a same-stem label file.
C1_PartitionsDisjointAndCover ==
    phase = "splitDone" =>
        LET tr == ImagesOf(last.train)
            va == ImagesOf(last.val)
            te == ImagesOf(last.test)
        IN  /\ tr \cap va = {}
            /\ tr \cap te = {}
            /\ va \cap te = {}
            /\ tr \cup va \cup te = LabelledImages(files, last.cfg)

\* C2: split returns train = floor(trainRatio * N), val = floor(valRatio * N)
\* and test = N - train - val, N being the number of labelled images.
C2_FloorCounts ==
    phase = "splitDone" =>
        LET N == Cardinality(LabelledImages(files, last.cfg))
            r == last.cfg.ratios
        IN  /\ last.counts.train = (r.train * N) \div RatioDen
            /\ last.counts.val = (r.val * N) \div RatioDen
            /\ last.counts.test = N - last.counts.train - last.counts.val
            /\ last.counts.train + last.counts.val + last.counts.test = N

\* C3: a constructor call whose ratios are not within 0.01 of 1.0 raises and
\* leaves the disk as it was (no directory created, no file copied); a call
\* whose ratios are within the tolerance succeeds and the six partition
\* directories exist afterwards.
C3_BadRatiosRaiseBeforeDiskWork ==
    [][CtorStep =>
          /\ ~WithinTolerance(splitter'.ratios) =>
                (phase' = "failed" /\ dirs' = dirs /\ files' = files)
          /\ WithinTolerance(splitter'.ratios) =>
                (phase' = "constructed" /\ OutDirs \subseteq dirs')]_vars

\* a constructor call with out-of-tolerance ratios has raised, and no
\* partition directory exists
C3_Witness ==
    /\ phase = "failed"
    /\ ~WithinTolerance(splitter.ratios)
    /\ dirs \cap OutDirs = {}

\* C4: a constructor or split call whose images or labels directory does not
\* exist fails, and leaves the disk as it was.
C4_MissingInputIsFatal ==
    [][((CtorStep \/ SplitStep)
          /\ (splitter'.images_dir \notin dirs \/ splitter'.labels_dir \notin dirs))
          => (phase' = "failed" /\ dirs' = dirs /\ files' = files)]_vars

\* C5: after a split run, images/p and labels/p hold exactly the files of the
\* pairs this run assigned to p, whatever the output directory held before.
C5_PartitionDirsHoldExactlyThisRun ==
    phase = "splitDone" =>
        \A i \in 1..Len(Partitions) :
            LET p == Partitions[i]
            IN  /\ DOMAIN files[ImgDir(p)] = ImagesOf(last[p])
                /\ DOMAIN files[LblDir(p)] = LabelsOf(last[p])

\* C6: after a split run, every image in images/p has a same-stem label in
\* labels/p whose content is that of the source label paired with the image.
C6_EveryImageHasItsSourceLabel ==
    phase = "splitDone" =>
        \A i \in 1..Len(Partitions) :
            \A img \in DOMAIN files[ImgDir(Partitions[i])] :
                /\ LabelOf(img) \in DOMAIN files[LblDir(Partitions[i])]
                /\ LabelOf(img) \in DOMAIN files[last.cfg.labels_dir]
                /\ files[LblDir(Partitions[i])][LabelOf(img)]
                     = files[last.cfg.labels_dir][LabelOf(img)]

\* the inputs of two runs agree: seed, ratios, directories, enumeration order
SameInputs(a, b) ==
    /\ a.seed = b.seed
    /\ a.cfg = b.cfg
    /\ a.image_files = b.image_files

\* C7: two split runs with the same seed, ratios and input set in the same
\* enumeration order yield the same partition counts and membership, whatever
\* use was made of the random generator in between.
C7_SameSeedSameSplit ==
    (runs >= 2 /\ SameInputs(ref, last)) =>
        /\ last.train = ref.train
        /\ last.val = ref.val
        /\ last.test = ref.test
        /\ last.counts = ref.counts

\* a second run repeats the first run's inputs on at least two pairs, the
\* generator having been used by someone else since the first run
C7_Witness ==
    /\ runs >= 2
    /\ SameInputs(ref, last)
    /\ Len(last.train) + Len(last.val) + Len(last.test) >= 2
    /\ last.rngBefore.seed = ref.seed
    /\ last.rngBefore # Shuffle(ValidPairs(ref.image_files, files, ref.cfg.labels_dir),
                                RandomSeed(ref.seed)).rng

\* C8: a split run leaves every input directory with the files it had, and
\* each pair it assigned is in its partition's directories under the
\* original file names, with the source's content.
C8_CopyNotMove ==
    [][SplitStep =>
          /\ \A d \in ImageDirArgs \cup LabelDirArgs : files'[d] = files[d]
          /\ \A i \in 1..Len(Partitions) :
                \A k \in 1..Len(last'[Partitions[i]]) :
                    LET pr == last'[Partitions[i]][k]
                        id == ImgDir(Partitions[i])
                        ld == LblDir(Partitions[i])
                    IN  /\ pr.img \in DOMAIN files'[id]
                        /\ files'[id][pr.img] = files[splitter.images_dir][pr.img]
                        /\ pr.lbl \in DOMAIN files'[ld]
                        /\ files'[ld][pr.lbl] = files[splitter.labels_dir][pr.lbl]]_vars

\* a run has assigned and copied pairs to all three partitions
C8_Witness ==
    /\ phase = "splitDone"
    /\ \A i \in 1..Len(Partitions) :
          /\ last[Partitions[i]] # << >>
          /\ ImagesOf(last[Partitions[i]]) \subseteq DOMAIN files[ImgDir(Partitions[i])]

-----------------------------------------------------------------------------
(* Properties of the box normaliser.                                       *)

Million == 10 ^ FmtDigits

\* the box of the latest call lies entirely outside [0, width] x [0, height]:
\* entirely left of, right of, above or below the frame
EntirelyOutside(bbox, w, h) ==
    \/ Max2(bbox[1], bbox[3]) < 0
    \/ Min2(bbox[1], bbox[3]) > Px(w)
    \/ Max2(bbox[2], bbox[4]) < 0
    \/ Min2(bbox[2], bbox[4]) > Px(h)

\* C9: whatever the box and the image size, the normaliser rejects the box or
\* returns fields that all lie in [0, 1] with width > 0 and height > 0: no
\* emitted line carries a zero or negative extent or a field outside [0, 1].
C9_EmittedFieldsInRangeExtentPositive ==
    (normOut.returned /\ normOut.line # NoLine) =>
        /\ \A i \in 1..4 : normOut.line[i] >= 0 /\ normOut.line[i] <= Million
        /\ normOut.line[3] > 0
        /\ normOut.line[4] > 0

\* C10: a box entirely outside the image frame is rejected.
C10_OutsideBoxRejected ==
    (normOut.returned /\ EntirelyOutside(normIn[1], normIn[2], normIn[3])) =>
        normOut.line = NoLine

\* a well-formed box entirely to the right of the frame has been rejected
C10_Witness ==
    /\ normOut.returned
    /\ normIn[1][1] > Px(normIn[2])
    /\ normIn[1][1] < normIn[1][3]
    /\ normIn[1][2] >= 0
    /\ normIn[1][2] < normIn[1][4]
    /\ normIn[1][4] <= Px(normIn[3])
    /\ normOut.line = NoLine

\* xmin < xmax and ymin < ymax
WellFormed(bbox) == bbox[1] < bbox[3] /\ bbox[2] < bbox[4]

\* the rectangle a well-formed box has in common with the frame
\* [0, w] x [0, h]
Intersection(bbox, w, h) ==
    [x0 |-> IF bbox[1] < 0 THEN 0 ELSE bbox[1],
     x1 |-> IF bbox[3] > Px(w) THEN Px(w) ELSE bbox[3],
     y0 |-> IF bbox[2] < 0 THEN 0 ELSE bbox[2],
     y1 |-> IF bbox[4] > Px(h) THEN Px(h) ELSE bbox[4]]

\* a coordinate moved to the nearest point of [0, limit]
ClampedInto(v, limit) == IF v < 0 THEN 0 ELSE IF v > Px(limit) THEN Px(limit) ELSE v

PartlyOutside(bbox, w, h) ==
    \/ bbox[1] < 0 \/ bbox[2] < 0 \/ bbox[3] > Px(w) \/ bbox[4] > Px(h)

\* C11: clamping comes before rejection.  A well-formed box whose
\* intersection with the frame has positive width and height is not rejected
\* and the emitted centre and extent are those of the intersection rectangle
\* divided by the image width and height (to six decimals); a box whose
\* clamped width or clamped height is zero is rejected.
C11_ClampThenReject ==
    normOut.returned =>
        LET bbox == normIn[1]
            w == normIn[2]
            h == normIn[3]
            r == Intersection(bbox, w, h)
        IN  /\ (WellFormed(bbox) /\ r.x0 < r.x1 /\ r.y0 < r.y1) =>
                  normOut.line = << Fmt6(r.x0 + r.x1, 2 * CoordDen * w),
                                    Fmt6(r.y0 + r.y1, 2 * CoordDen * h),
                                    Fmt6(r.x1 - r.x0, CoordDen * w),
                                    Fmt6(r.y1 - r.y0, CoordDen * h) >>
            /\ (\/ ClampedInto(bbox[1], w) = ClampedInto(bbox[3], w)
                \/ ClampedInto(bbox[2], h) = ClampedInto(bbox[4], h)) =>
                  normOut.line = NoLine

\* a box sticking out of the frame on the left and on the right has been
\* emitted with the frame's full width
C11_Witness ==
    /\ normOut.returned
    /\ WellFormed(normIn[1])
    /\ normIn[1][1] < 0
    /\ normIn[1][3] > Px(normIn[2])
    /\ normIn[1][2] >= 0
    /\ normIn[1][4] <= Px(normIn[3])
    /\ normOut.line # NoLine
    /\ normOut.line[1] = Million \div 2
    /\ normOut.line[3] = Million

\* 0 <= xmin < xmax <= width and 0 <= ymin < ymax <= height
FullyInside(bbox, w, h) ==
    /\ 0 <= bbox[1] /\ bbox[1] < bbox[3] /\ bbox[3] <= Px(w)
    /\ 0 <= bbox[2] /\ bbox[2] < bbox[4] /\ bbox[4] <= Px(h)

\* The denormalised coordinate (2 * centre + sign * extent) / 2 * size
\* differs from the original coordinate v (in 1/CoordDen pixel) by no more
\* than the rounding of the two fields allows: half a unit of the sixth
\* decimal for the centre plus a quarter for the half extent, times the
\* image size.  Both sides are compared in units of 10^-6 image sizes.
RecoveredWithinRounding(centre, extent, sign, v, size) ==
    LET den == CoordDen * size
        d == LongDiv(v \div den, v % den, den, FmtDigits)
        \* 2 * 10^6 * v / den = 2 * d.q + 2 * d.r / den
        m == 2 * centre + sign * extent - 2 * d.q
    IN  /\ m \in -4..4
        /\ 2 * Abs(m * den - 2 * d.r) <= 3 * den

\* C13: for a box fully inside the frame, denormalising the emitted fields
\* (xmin' = (x_center - w/2) * width, xmax' = (x_center + w/2) * width, and
\* likewise for y) recovers the original box within six-decimal rounding
\* error.
C13_DenormaliseRecoversBox ==
    (normOut.returned /\ FullyInside(normIn[1], normIn[2], normIn[3])) =>
        /\ normOut.line # NoLine
        /\ RecoveredWithinRounding(normOut.line[1], normOut.line[3], -1,
                                   normIn[1][1], normIn[2])
        /\ RecoveredWithinRounding(normOut.line[1], normOut.line[3], 1,
                                   normIn[1][3], normIn[2])
        /\ RecoveredWithinRounding(normOut.line[2], normOut.line[4], -1,
                                   normIn[1][2], normIn[3])
        /\ RecoveredWithinRounding(normOut.line[2], normOut.line[4], 1,
                                   normIn[1][4], normIn[3])

\* a box inside a 4 x 3 frame whose height, two thirds of the image, is not
\* a six-decimal number, has been normalised
C13_Witness ==
    /\ normOut.returned
    /\ FullyInside(normIn[1], normIn[2], normIn[3])
    /\ normIn[3] = 3
    /\ normIn[1][2] = 0
    /\ normIn[1][4] = Px(2)
    /\ normOut.line # NoLine
    /\ normOut.line[4] = 666667

-----------------------------------------------------------------------------
(* Properties of the converter.                                            *)

\* a step that runs the annotation loop's body on job.annotations[job.j]
AnnotationStep ==
    /\ job.pc = "ann"
    /\ job.j <= Len(job.annotations)
    /\ job'.j = job.j + 1

\* a step that leaves the annotation loop of an image
WriteStep == job.pc = "ann" /\ job'.pc = "image"

\* the convert() call goes on with the next annotation of the same image
NextAnnotation ==
    /\ job'.pc = "ann"
    /\ job'.j = job.j + 1
    /\ job'.i = job.i
    /\ job'.annotations = job.annotations
    /\ job'.image_files = job.image_files

\* the taxonomy key of a record: the first it has of the three alternates
TaxonomyKey(ann) ==
    IF Has(ann, "type") THEN "type"
    ELSE IF Has(ann, "class_type") THEN "class_type"
    ELSE IF Has(ann, "type_id") THEN "type_id"
    ELSE ""

\* the record's class identifier is a key of the class map
MappedClass(ann, class_map) ==
    /\ TaxonomyKey(ann) # ""
    /\ LET v == ann.props[TaxonomyKey(ann)]
       IN  /\ v.t \in {"int", "float", "str"}
           /\ IntOf(v).ok
           /\ IntOf(v).val \in DOMAIN class_map

\* the line of the scenario: 200/1024 = 0.1953125 printed with six decimals
ScenarioLine == <<2, 195312, 195312, 195312, 195312>>

\* the str "100,100,300,300"
ScenarioBounds ==
    Str(<<"1", "0", "0", ",", "1", "0", "0", ",", "3", "0", "0", ",", "3", "0", "0">>)

\* C12: an annotation with bounds string "100,100,300,300" on a 1024x1024
\* image whose raw class maps to index 2 produces exactly the label line
\* "2 0.195312 0.195312 0.195312 0.195312".
C12_ScenarioLine ==
    [][(/\ AnnotationStep
        /\ job.w = 1024 /\ job.h = 1024
        /\ LET ann == job.annotations[job.j]
           IN  /\ Has(ann, "bounds_imcoords")
               /\ ann.props["bounds_imcoords"] = ScenarioBounds
               /\ MappedClass(ann, conv.class_map)
               /\ conv.class_map[IntOf(ann.props[TaxonomyKey(ann)]).val] = 2)
       => job'.label_lines = Append(job.label_lines, ScenarioLine)]_vars

\* a run has written the scenario's line as the label file of image a
C12_Witness ==
    /\ job.pc = "done"
    /\ File(StemA, "txt") \in DOMAIN files[ConvLabelsDir]
    /\ files[ConvLabelsDir][File(StemA, "txt")] = <<ScenarioLine>>
    /\ conv.stats.total_objects = 1

\* C14: the class map has one index per raw identifier of the configured
\* mapping, the indices are exactly 0..K-1 for K raw identifiers, and they
\* ascend with the numeric value of the raw identifier.
C14_ClassMapDenseAscending ==
    conv.status = "ok" =>
        LET class_dict == ClassDictOf(conv.args)
            raw == {class_dict[i][1] : i \in 1..Len(class_dict)}
            K == Cardinality(raw)
            ids == {IntOf(k).val : k \in raw}
        IN  /\ DOMAIN conv.class_map = ids
            /\ Cardinality(DOMAIN conv.class_map) = K
            /\ {conv.class_map[x] : x \in DOMAIN conv.class_map} = 0..(K - 1)
            /\ \A x, y \in DOMAIN conv.class_map :
                  x < y => conv.class_map[x] < conv.class_map[y]

\* C15: an annotation whose class identifier is absent from the class map
\* (an unmapped value, a value that is no identifier, or no taxonomy key at
\* all) adds no label line, leaves the invalid-annotation counter and the
\* per-class counts as they are, and the run goes on with the next
\* annotation.
C15_UnknownClassSkippedSilently ==
    [][(AnnotationStep /\ ~MappedClass(job.annotations[job.j], conv.class_map))
       => /\ job'.label_lines = job.label_lines
          /\ conv'.stats.invalid_annotations = conv.stats.invalid_annotations
          /\ conv'.stats.objects_by_class = conv.stats.objects_by_class
          /\ NextAnnotation]_vars

\* the bounds string of the record parses to four numbers
BoundsResolve(ann) ==
    /\ Has(ann, "bounds_imcoords")
    /\ ann.props["bounds_imcoords"].t = "str"
    /\ LET fields == PySplit(ann.props["bounds_imcoords"].s, ",")
       IN  /\ Len(fields) = 4
           /\ \A k \in 1..4 : FloatOfStr(fields[k]).ok

\* the record has polygon geometry with a first ring
PolygonResolves(ann) ==
    /\ ann.geometry.type = "Polygon"
    /\ ann.geometry.coordinates # << >>
    /\ ann.geometry.coordinates[1] # << >>

\* neither encoding yields a box
Unresolvable(ann) == ~BoundsResolve(ann) /\ ~PolygonResolves(ann)

\* C16: an annotation with a mapped class and unresolvable geometry
\* increments the invalid-annotation counter by exactly one, contributes no
\* label line and no object, and the run goes on with the next annotation.
C16_UnresolvableCountedOnce ==
    [][(/\ AnnotationStep
        /\ MappedClass(job.annotations[job.j], conv.class_map)
        /\ Unresolvable(job.annotations[job.j]))
       => /\ conv'.stats.invalid_annotations = conv.stats.invalid_annotations + 1
          /\ conv'.stats.objects_by_class = conv.stats.objects_by_class
          /\ job'.label_lines = job.label_lines
          /\ job'.objects_count = job.objects_count
          /\ NextAnnotation]_vars

\* the box a record's geometry denotes: the bounds string when it parses,
\* otherwise the box of the polygon's first ring, otherwise none
SpecBox(ann) ==
    IF BoundsResolve(ann)
    THEN LET fields == PySplit(ann.props["bounds_imcoords"].s, ",")
         IN  [k \in 1..4 |-> FloatOfStr(fields[k]).val]
    ELSE IF PolygonResolves(ann)
    THEN LET ring == ann.geometry.coordinates[1]
         IN  << MinOf([k \in 1..Len(ring) |-> ring[k][1]]),
                MinOf([k \in 1..Len(ring) |-> ring[k][2]]),
                MaxOf([k \in 1..Len(ring) |-> ring[k][1]]),
                MaxOf([k \in 1..Len(ring) |-> ring[k][2]]) >>
    ELSE NoBox

\* the box has no positive extent once clamped into the frame
ClampedDegenerate(bbox, w, h) ==
    \/ ClampedInto(bbox[3], w) <= ClampedInto(bbox[1], w)
    \/ ClampedInto(bbox[4], h) <= ClampedInto(bbox[2], h)

\* C17: when normalisation rejects the resolved box of an annotation as
\* degenerate, the annotation is dropped and the invalid-annotation counter,
\* the per-class counts and the object total stay as they are.
C17_DegenerateDroppedSilently ==
    [][(/\ AnnotationStep
        /\ MappedClass(job.annotations[job.j], conv.class_map)
        /\ SpecBox(job.annotations[job.j]) # NoBox
        /\ ClampedDegenerate(SpecBox(job.annotations[job.j]), job.w, job.h))
       => /\ conv'.stats = conv.stats
          /\ job'.label_lines = job.label_lines
          /\ job'.objects_count = job.objects_count
          /\ NextAnnotation]_vars

\* the normaliser has just rejected the box of a mapped annotation, and no
\* annotation has been counted as invalid
C17_Witness ==
    /\ job.pc = "ann"
    /\ job.j = 2
    /\ MappedClass(job.annotations[1], conv.class_map)
    /\ SpecBox(job.annotations[1]) # NoBox
    /\ ClampedDegenerate(SpecBox(job.annotations[1]), job.w, job.h)
    /\ job.outcome.kind = "degenerate"
    /\ conv.stats.invalid_annotations = 0

\* C18: geometry resolution tries the bounds string first and the polygon
\* second: the annotation of a mapped class is unresolvable only when both
\* encodings fail, and otherwise its box is the first encoding that succeeds.
C18_BoundsThenPolygon ==
    [][(AnnotationStep /\ MappedClass(job.annotations[job.j], conv.class_map))
       => LET box == SpecBox(job.annotations[job.j])
          IN  /\ (job'.outcome.kind = "invalid") <=> (box = NoBox)
              /\ box # NoBox => job'.outcome.bbox = box]_vars

\* image_file decodes
Decodable(image_file) == files[ConvImagesDir][image_file] # Undecodable

\* no annotation group is found under the image's stem or file name
NoMatchedGroup(image_file) ==
    /\ GetGroup(job.annotations_by_image, StemOf(image_file)) = << >>
    /\ GetGroup(job.annotations_by_image, NameOf(image_file)) = << >>

\* C19: when a run completes, every decodable image with no matched
\* annotation has a label file <stem>.txt that is empty, whatever the label
\* directory held before the run.
C19_EmptyLabelForUnannotatedImage ==
    job.pc = "done" =>
        \A k \in 1..Len(job.image_files) :
            LET image_file == job.image_files[k]
                label == File(StemOf(image_file), "txt")
            IN  (Decodable(image_file) /\ NoMatchedGroup(image_file)) =>
                    /\ label \in DOMAIN files[ConvLabelsDir]
                    /\ files[ConvLabelsDir][label] = << >>

\* the label lines of the annotations of a group that survive, in order
RECURSIVE SurvivingLines(_, _, _, _)
SurvivingLines(annotations, class_map, w, h) ==
    IF annotations = << >> THEN << >>
    ELSE LET out == AnnotationOutcome(Head(annotations), class_map, w, h)
             rest == SurvivingLines(Tail(annotations), class_map, w, h)
         IN  IF out.kind = "line" THEN <<out.line>> \o rest ELSE rest

\* C20: for an image whose annotation group is non-empty, the run writes no
\* label file and does not count the image as processed when no box
\* survives; when at least one survives it writes the label file with one
\* line per surviving box and counts the image once.
C20_NoLabelFileWhenAllFiltered ==
    [][WriteStep =>
          LET lines == SurvivingLines(job.annotations, conv.class_map, job.w, job.h)
              label == File(StemOf(job.image_files[job.i]), "txt")
          IN  /\ job.annotations # << >>
              /\ IF lines = << >>
                 THEN /\ files' = files
                      /\ conv'.stats = conv.stats
                 ELSE /\ files'[ConvLabelsDir] = (label :> lines) @@ files[ConvLabelsDir]
                      /\ Len(files'[ConvLabelsDir][label]) = Len(lines)
                      /\ conv'.stats.processed_images = conv.stats.processed_images + 1]_vars

\* a run over an empty label directory has completed; image a decoded, its
\* annotation group was not empty, nothing of it survived, and there is no
\* label file for it and no processed image
C20_Witness ==
    /\ job.pc = "done"
    /\ job.calls = 1
    /\ GetGroup(job.annotations_by_image, StemA) # << >>
    /\ File(StemA, "jpg") \in DOMAIN files[ConvImagesDir]
    /\ File(StemA, "txt") \notin DOMAIN files[ConvLabelsDir]
    /\ conv.stats.processed_images = 0
    /\ conv.stats.total_images > 0

-----------------------------------------------------------------------------
(* Properties of a conversion run.                                         *)

\* the image loop takes up image job.i
ImageStep == job.pc = "image" /\ job'.pc \in {"image", "ann"} /\ job' # job

\* C21: for an image that cannot be decoded the run adds one to
\* skipped_images, appends the image's stem to missing_images, writes no
\* label file, adds nothing to the object and per-class counts, and goes on
\* to the next image.
C21_UndecodableImageSkipped ==
    [][(ImageStep /\ ~Decodable(job.image_files[job.i])) =>
          /\ conv'.stats.skipped_images = conv.stats.skipped_images + 1
          /\ conv'.stats.missing_images =
                Append(conv.stats.missing_images, StemOf(job.image_files[job.i]))
          /\ files' = files
          /\ conv'.stats.total_objects = conv.stats.total_objects
          /\ conv'.stats.objects_by_class = conv.stats.objects_by_class
          /\ conv'.stats.processed_images = conv.stats.processed_images
          /\ job'.pc = "image"
          /\ job'.i = job.i + 1]_vars

\* a run over an empty label directory has completed; c.tif did not decode,
\* it is the one skipped image, its stem is listed and it has no label file
C21_Witness ==
    /\ job.pc = "done"
    /\ job.calls = 1
    /\ File(StemC, "tif") \in DOMAIN files[ConvImagesDir]
    /\ ~Decodable(File(StemC, "tif"))
    /\ conv.stats.skipped_images = 1
    /\ conv.stats.missing_images = <<StemC>>
    /\ File(StemC, "txt") \notin DOMAIN files[ConvLabelsDir]

\* the disk a run over image_files[k..] leaves when it starts from disk fs:
\* the image loop of convert() (lines 166-243) without its statistics
RECURSIVE DiskAfterRun(_, _, _, _, _)
DiskAfterRun(image_files, k, index, class_map, fs) ==
    IF k > Len(image_files) THEN fs
    ELSE LET image_file == image_files[k]
             image_name == StemOf(image_file)
             img == Imread(fs[ConvImagesDir][image_file])
             annotations == LookupAnnotations(index, image_name, NameOf(image_file))
             lines == SurvivingLines(annotations, class_map, img.shape[2], img.shape[1])
         IN  IF img = NoImg
             THEN DiskAfterRun(image_files, k + 1, index, class_map, fs)
             ELSE IF annotations = << >>
             THEN DiskAfterRun(image_files, k + 1, index, class_map,
                               Touch(fs, ConvLabelsDir, File(image_name, "txt")))
             ELSE DiskAfterRun(image_files, k + 1, index, class_map,
                               WriteLabels(fs, InitStats, image_name, lines, Len(lines)).files)

\* the label directory the current run leaves when the label directory is
\* empty at its start
LabelsOfFreshRun ==
    DiskAfterRun(job.image_files, 1, job.annotations_by_image, conv.class_map,
                 ConvFiles(files[ConvImagesDir], EmptyDir))[ConvLabelsDir]

\* the label files named after the images the current run scans
ScannedLabels == {File(StemOf(job.image_files[k]), "txt") : k \in 1..Len(job.image_files)}

\* the label files of the scanned images are those of a run over an empty
\* label directory
FreshOutcome ==
    job.pc = "done" =>
        \A label \in ScannedLabels :
            /\ (label \in DOMAIN files[ConvLabelsDir]) <=> (label \in DOMAIN LabelsOfFreshRun)
            /\ label \in DOMAIN LabelsOfFreshRun =>
                   files[ConvLabelsDir][label] = LabelsOfFreshRun[label]

\* a step of a run leaves every file not named after a scanned image alone
OthersUntouched ==
    job.pc \in {"image", "ann"} =>
        \A label \in DOMAIN files[ConvLabelsDir] \ ScannedLabels :
            /\ label \in DOMAIN files'[ConvLabelsDir]
            /\ files'[ConvLabelsDir][label] = files[ConvLabelsDir][label]

\* C22: conversion is safe to re-run: when a run completes, the label file
\* of every scanned image is what the same run leaves over an empty label
\* directory, whatever an earlier run left there, and the files not named
\* after a scanned image are untouched.
C22_RerunSafe == []FreshOutcome /\ [][OthersUntouched]_vars

\* the label files of directory labels that hold at least one line
NonEmptyLabels(labels) == {label \in DOMAIN labels : labels[label] # << >>}

\* the number of lines in the label files S of directory labels
RECURSIVE LineCount(_, _)
LineCount(labels, S) ==
    IF S = {} THEN 0
    ELSE LET label == CHOOSE l \in S : TRUE
         IN  Len(labels[label]) + LineCount(labels, S \ {label})

\* C23: when a run over an empty output directory completes, the number of
\* non-empty label files equals processed_images and the number of lines in
\* them equals total_objects, also when image files share a stem.
C23_OneLabelFilePerProcessedImage ==
    (job.pc = "done" /\ job.calls = 1) =>
        /\ Cardinality(NonEmptyLabels(files[ConvLabelsDir])) = conv.stats.processed_images
        /\ LineCount(files[ConvLabelsDir], DOMAIN files[ConvLabelsDir]) = conv.stats.total_objects

\* the run has loaded its inputs and is in its image loop
InImageLoop == job.pc \in {"image", "ann"}

\* C24: every run that gets past loading its inputs eventually reaches the
\* final report and returns the statistics, whatever undecodable images,
\* unknown classes, unresolvable geometries and degenerate boxes it meets.
C24_RunReachesReport == InImageLoop ~> (job.pc = "done" /\ job.returned.valid)

\* a run has returned after one image did not decode, one annotation had a
\* degenerate box and one had no resolvable geometry
C24_Witness ==
    /\ job.pc = "done"
    /\ job.calls = 1
    /\ job.returned = [valid |-> TRUE, reported |-> conv.stats]
    /\ store.rows = <<RowFlat, RowLetters>>
    /\ conv.stats.skipped_images = 1
    /\ conv.stats.invalid_annotations = 1
    /\ conv.stats.processed_images = 0

\* convert() returns on a converter whose convert() has returned before
ReturnsAgain == job.pc = "image" /\ job'.pc = "done" /\ job.returned.valid

\* what every later call returns is what the call before it returned
SameStatisticsAgain ==
    ReturnsAgain => job'.returned.reported = job.returned.reported

\* the returned counts of processed and skipped images fit the image count
CountsWithinTotal ==
    job.pc = "done" =>
        conv.stats.processed_images + conv.stats.skipped_images <= conv.stats.total_images

\* C25: the statistics convert() returns describe that run alone: a second
\* call on the same converter with unchanged inputs returns the same counts
\* as the first, and after any number of calls processed_images +
\* skipped_images <= total_images.
C25_StatisticsPerRun == [][SameStatisticsAgain]_vars /\ []CountsWithinTotal

\* the record has a value under key: the key is there and its value is
\* neither missing (nan) nor null
Carries(row, key) == Has(row, key) /\ row.props[key].t \notin {"nan", "none"}

\* the image identifier of a record by the two rules, << >> when neither
\* yields one
ResolvedImageId(row) ==
    IF Carries(row, "image_id") THEN PyStr(row.props["image_id"])
    ELSE IF Carries(row, "feature_id")
    THEN PySplit(PyStr(row.props["feature_id"]), ".")[1]
    ELSE << >>

\* the records of the store whose identifier is key, in store order
RecordsOf(key) ==
    LET belongs(row) == ResolvedImageId(row) = key
    IN  SelectSeq(store.rows, belongs)

\* the annotation index has been built
IndexBuilt == job.pc \in {"image", "ann", "done"}

\* C26: in the annotation index a record is filed under its image_id field
\* when it has one, otherwise under the part of its feature_id before the
\* first '.'; a record for which neither rule yields an identifier is in no
\* group.
C26_IdentifierResolution ==
    IndexBuilt =>
        /\ DOMAIN job.annotations_by_image =
              {ResolvedImageId(store.rows[k]) : k \in 1..Len(store.rows)} \ {<< >>}
        /\ \A key \in DOMAIN job.annotations_by_image :
              job.annotations_by_image[key] = RecordsOf(key)

\* C27: for a decodable image the annotation group is looked up under the
\* stem first and under the file name only when the stem finds nothing;
\* when both keys have a group, only the stem-keyed one is converted.
C27_StemBeforeFilename ==
    [][(ImageStep /\ Decodable(job.image_files[job.i])) =>
          LET by_stem == GetGroup(job.annotations_by_image, StemOf(job.image_files[job.i]))
              by_filename == GetGroup(job.annotations_by_image, NameOf(job.image_files[job.i]))
          IN  /\ by_stem # << >> =>
                    job'.pc = "ann" /\ job'.annotations = by_stem
              /\ (by_stem = << >> /\ by_filename # << >>) =>
                    job'.pc = "ann" /\ job'.annotations = by_filename
              /\ (by_stem = << >> /\ by_filename = << >>) =>
                    job'.pc = "image" /\ job'.i = job.i + 1]_vars

\* a run over an empty label directory has completed for a store with one
\* record filed under 'a' and one under 'a.jpg': the label file of a.jpg
\* holds the one line of the stem-keyed record
C27_Witness ==
    /\ job.pc = "done"
    /\ job.calls = 1
    /\ store.rows = <<RowScenario, RowFileKeyed>>
    /\ GetGroup(job.annotations_by_image, StemA) = <<RowScenario>>
    /\ GetGroup(job.annotations_by_image, IdAjpg.s) = <<RowFileKeyed>>
    /\ File(StemA, "txt") \in DOMAIN files[ConvLabelsDir]
    /\ Len(files[ConvLabelsDir][File(StemA, "txt")]) = 1
    /\ conv.stats.total_objects = 1

\* the elements of g occur in rows, in the order they have in g
RECURSIVE InOrderOf(_, _)
InOrderOf(g, rows) ==
    IF g = << >> THEN TRUE
    ELSE IF rows = << >> THEN FALSE
    ELSE IF Head(g) = Head(rows) THEN InOrderOf(Tail(g), Tail(rows))
    ELSE InOrderOf(g, Tail(rows))

\* every group of the index lists its records in store order
GroupsInStoreOrder ==
    IndexBuilt =>
        \A key \in DOMAIN job.annotations_by_image :
            InOrderOf(job.annotations_by_image[key], store.rows)

\* the label file written for an image holds the lines of the surviving
\* annotations of its group, in group order
LinesInGroupOrder ==
    (WriteStep /\ job.label_lines # << >>) =>
        /\ job.label_lines =
              SurvivingLines(job.annotations, conv.class_map, job.w, job.h)
        /\ files'[ConvLabelsDir][File(StemOf(job.image_files[job.i]), "txt")]
              = job.label_lines

\* C28: each annotation group lists its records in the order of the
\* annotation store, and the lines of a label file are the surviving
\* annotations of the group in that order; dropping an annotation never
\* reorders the others.
C28_OrderPreserved == []GroupsInStoreOrder /\ [][LinesInGroupOrder]_vars

\* a run over a.jpg (1024 x 1024) has completed for a store whose two
\* records of image a both survive: a.txt holds their lines in store order
C28_Witness ==
    /\ job.pc = "done"
    /\ store.rows = <<RowScenario, RowPartly>>
    /\ job.annotations_by_image[StemA] = <<RowScenario, RowPartly>>
    /\ File(StemA, "jpg") \in DOMAIN files[ConvImagesDir]
    /\ File(StemA, "png") \notin DOMAIN files[ConvImagesDir]
    /\ files[ConvLabelsDir][File(StemA, "txt")]
          = <<ScenarioLine, <<1, 500000, 250000, 1000000, 500000>>>>

\* the sum of the counts of the classes S
RECURSIVE SumCounts(_, _)
SumCounts(counts, S) ==
    IF S = {} THEN 0
    ELSE LET c == CHOOSE k \in S : TRUE
         IN  counts[c] + SumCounts(counts, S \ {c})

\* C29: when a single run on a fresh converter completes, total_objects is
\* the sum of the per-class counts, every key of the per-class counts is a
\* raw identifier of the class map, the missing list is as long as
\* skipped_images, and processed_images + skipped_images <= total_images.
C29_StatisticsConsistent ==
    (job.pc = "done" /\ job.calls = 1) =>
        LET stats == job.returned.reported
        IN  /\ stats = conv.stats
            /\ stats.total_objects =
                  SumCounts(stats.objects_by_class, DOMAIN stats.objects_by_class)
            /\ DOMAIN stats.objects_by_class \subseteq DOMAIN conv.class_map
            /\ Len(stats.missing_images) = stats.skipped_images
            /\ stats.processed_images + stats.skipped_images <= stats.total_images

\* a single run has completed with one image skipped, one processed and
\* objects of one class counted
C29_Witness ==
    /\ job.pc = "done"
    /\ job.calls = 1
    /\ conv.stats.skipped_images = 1
    /\ conv.stats.processed_images = 1
    /\ conv.stats.total_images = 3
    /\ conv.stats.total_objects = 2
    /\ conv.stats.objects_by_class = (13 :> 2)

-----------------------------------------------------------------------------
(* Properties of the pipeline.                                             *)

\* the split put image_file into one of the three partitions
Assigned(image_file) ==
    image_file \in ImagesOf(last.train) \cup ImagesOf(last.val) \cup ImagesOf(last.test)

\* at least one annotation of the group matched for image_file survives
HasSurvivingBox(image_file) ==
    LET img == files[ConvImagesDir][image_file]
        annotations == LookupAnnotations(job.annotations_by_image,
                                         StemOf(image_file), NameOf(image_file))
    IN  SurvivingLines(annotations, conv.class_map, img.w, img.h) # << >>

\* C30: when a conversion over an empty label directory is followed by a
\* split over the same images and the labels it produced, an image is in
\* a partition exactly when it decoded and either had no matched
\* annotation group or had at least one surviving box.
C30_PartitionedIffLabelled ==
    (phase = "splitDone" /\ job.calls = 1) =>
        \A k \in 1..Len(job.image_files) :
            LET image_file == job.image_files[k]
            IN  Assigned(image_file) <=>
                    /\ Decodable(image_file)
                    /\ NoMatchedGroup(image_file) \/ HasSurvivingBox(image_file)

====
